---- MODULE Spec2Model ----
(***************************************************************************)
(* Model of the advanced query translator (src/query_translator.py).       *)
(*                                                                         *)
(* A Python str is modelled as a sequence of one-character strings, so     *)
(* that the tokenizer, the regular expressions and the value parsers work  *)
(* on characters as the code does.  Python indices are kept 0-based: the   *)
(* character query[i] of the code is q[i + 1] here.                        *)
(*                                                                         *)
(* The text that translate returns (sql) is a sequence of pieces: every    *)
(* fixed fragment of an f-string is one piece, every placeholder is the    *)
(* piece "?", and an interpolated str is the piece naming it when it is a  *)
(* known column or operator, and its characters one by one otherwise.      *)
(***************************************************************************)
EXTENDS Integers, Sequences, FiniteSets, TLC

VARIABLES
    utcoffset   \* the offset of the local time zone from UTC, in seconds

\* a local name: F applied to the value v, which is computed once
Bind(v, F(_)) == F(v)

Min(a, b) == IF a <= b THEN a ELSE b

Max(a, b) == IF a >= b THEN a ELSE b

----------------------------------------------------------------------------
(* Characters                                                              *)

Digits == {"0", "1", "2", "3", "4", "5", "6", "7", "8", "9"}

DigitSeq == <<"0", "1", "2", "3", "4", "5", "6", "7", "8", "9">>

LowerSeq == <<"a", "b", "c", "d", "e", "f", "g", "h", "i", "j", "k", "l", "m",
              "n", "o", "p", "q", "r", "s", "t", "u", "v", "w", "x", "y", "z">>

UpperSeq == <<"A", "B", "C", "D", "E", "F", "G", "H", "I", "J", "K", "L", "M",
              "N", "O", "P", "Q", "R", "S", "T", "U", "V", "W", "X", "Y", "Z">>

LowerLetters == {LowerSeq[k] : k \in DOMAIN LowerSeq}

UpperLetters == {UpperSeq[k] : k \in DOMAIN UpperSeq}

Letters == LowerLetters \cup UpperLetters

\* str.isalnum() of one character
IsAlnum(c) == c \in Letters \cup Digits

\* the class \w of module re
IsWord(c) == IsAlnum(c) \/ c = "_"

\* the class \s of module re, and the separators of str.split() and str.strip()
IsSpace(c) == c \in {" ", "\t", "\n"}

\* str.lower() of one character
LowerChar(c) ==
    IF c \in UpperLetters
    THEN LowerSeq[CHOOSE k \in DOMAIN UpperSeq : UpperSeq[k] = c]
    ELSE c

\* str.lower()
Lower(s) == [k \in DOMAIN s |-> LowerChar(s[k])]

\* str.upper() of one character
UpperChar(c) ==
    IF c \in LowerLetters
    THEN UpperSeq[CHOOSE k \in DOMAIN LowerSeq : LowerSeq[k] = c]
    ELSE c

\* str.upper()
Upper(s) == [k \in DOMAIN s |-> UpperChar(s[k])]

\* the value of a decimal digit
DigitVal(c) == (CHOOSE k \in DOMAIN DigitSeq : DigitSeq[k] = c) - 1

\* s.startswith(p)
StartsWith(s, p) == Len(s) >= Len(p) /\ SubSeq(s, 1, Len(p)) = p

\* s.endswith(p)
EndsWith(s, p) == Len(s) >= Len(p) /\ SubSeq(s, Len(s) - Len(p) + 1, Len(s)) = p

\* s[n:]
DropFirst(s, n) == SubSeq(s, n + 1, Len(s))

\* s[:-n]
DropLast(s, n) == SubSeq(s, 1, Len(s) - n)

\* c in s
Contains(s, c) == \E k \in DOMAIN s : s[k] = c

\* s.replace(a, b) for single characters a, b
ReplaceChar(s, a, b) == [k \in DOMAIN s |-> IF s[k] = a THEN b ELSE s[k]]

RECURSIVE LStrip(_)
\* s.lstrip()
LStrip(s) == IF s # <<>> /\ IsSpace(s[1]) THEN LStrip(Tail(s)) ELSE s

RECURSIVE RStrip(_)
\* s.rstrip()
RStrip(s) == IF s # <<>> /\ IsSpace(s[Len(s)]) THEN RStrip(DropLast(s, 1)) ELSE s

\* s.strip()
Strip(s) == RStrip(LStrip(s))

RECURSIVE Split(_)
\* s.split(): the maximal runs of non-whitespace characters, in order
Split(s) ==
    LET t == LStrip(s) IN
    IF t = <<>> THEN <<>>
    ELSE LET n == IF \E k \in DOMAIN t : IsSpace(t[k])
                  THEN (CHOOSE k \in DOMAIN t :
                            IsSpace(t[k]) /\ \A j \in 1..(k - 1) : ~IsSpace(t[j])) - 1
                  ELSE Len(t)
         IN <<SubSeq(t, 1, n)>> \o Split(DropFirst(t, n))

RECURSIVE Join(_, _)
\* sep.join(parts)
Join(sep, parts) ==
    IF parts = <<>> THEN <<>>
    ELSE IF Len(parts) = 1 THEN parts[1]
    ELSE parts[1] \o sep \o Join(sep, Tail(parts))

----------------------------------------------------------------------------
(* Numbers.  A Python int is unbounded and a float is an IEEE double, so   *)
(* magnitudes are kept as little-endian sequences of bits without a        *)
(* leading zero: <<>> is 0, <<1>> is 1, <<0, 1>> is 2.                     *)

\* the significand width of a double
MantBits == 53

\* drop the high zero bits
Norm(b) ==
    IF \A k \in DOMAIN b : b[k] = 0 THEN <<>>
    ELSE SubSeq(b, 1, CHOOSE k \in DOMAIN b :
                          b[k] = 1 /\ \A j \in (k + 1)..Len(b) : b[j] = 0)

\* b + 1
Inc(b) ==
    IF \A k \in DOMAIN b : b[k] = 1 THEN [k \in 1..Len(b) |-> 0] \o <<1>>
    ELSE LET z == CHOOSE k \in DOMAIN b : b[k] = 0 /\ \A j \in 1..(k - 1) : b[j] = 1
         IN [k \in DOMAIN b |-> IF k < z THEN 0 ELSE IF k = z THEN 1 ELSE b[k]]

RECURSIVE Pow2(_)
Pow2(n) == IF n = 0 THEN 1 ELSE 2 * Pow2(n - 1)

\* the bits of a limb, the digit of a magnitude in base 2^LimbBits
LimbBits == 15

\* the magnitude of a sequence of limbs, least significant first
LimbsToBits(ls) ==
    Norm([k \in 1..(LimbBits * Len(ls)) |->
             (ls[((k - 1) \div LimbBits) + 1] \div Pow2((k - 1) % LimbBits)) % 2])

\* the magnitude of a natural number n below 2^LimbBits * 2^LimbBits
FromNat(n) == LimbsToBits(<<n % Pow2(LimbBits), n \div Pow2(LimbBits)>>)

RECURSIVE ToNat(_)
\* the natural number of a magnitude of at most 30 bits
ToNat(b) == IF b = <<>> THEN 0 ELSE b[1] + 2 * ToNat(Tail(b))

\* b * 2^k
Shl(b, k) == IF b = <<>> THEN <<>> ELSE [j \in 1..k |-> 0] \o b

\* b div 2^k
Shr(b, k) == IF k >= Len(b) THEN <<>> ELSE SubSeq(b, k + 1, Len(b))

RECURSIVE MulAdd(_, _, _)
\* ls * m + c on limbs
MulAdd(ls, m, c) ==
    IF ls = <<>> THEN (IF c = 0 THEN <<>> ELSE <<c>>)
    ELSE LET t == ls[1] * m + c
         IN <<t % Pow2(LimbBits)>> \o MulAdd(Tail(ls), m, t \div Pow2(LimbBits))

RECURSIVE SmallDec(_)
\* the number a string of at most four decimal digits stands for
SmallDec(ds) ==
    IF ds = <<>> THEN 0 ELSE 10 * SmallDec(DropLast(ds, 1)) + DigitVal(ds[Len(ds)])

RECURSIVE DecToLimbs(_)
\* the limbs of a string of decimal digits, four digits at a time
DecToLimbs(ds) ==
    IF Len(ds) <= 4 THEN (IF SmallDec(ds) = 0 THEN <<>> ELSE <<SmallDec(ds)>>)
    ELSE MulAdd(DecToLimbs(DropLast(ds, 4)), 10000,
                SmallDec(SubSeq(ds, Len(ds) - 3, Len(ds))))

\* the magnitude of a string of decimal digits
DecToBits(ds) == LimbsToBits(DecToLimbs(ds))

RECURSIVE Pow10(_)
Pow10(n) == IF n = 0 THEN 1 ELSE 10 * Pow10(n - 1)

\* a Python value: None, an int, a float, a str
NoneVal == [t |-> "none"]

IntVal(neg, mag) == [t |-> "int", neg |-> neg /\ mag # <<>>, mag |-> mag]

\* the int n
PyInt(n) == IF n < 0 THEN IntVal(TRUE, FromNat(-n)) ELSE IntVal(FALSE, FromNat(n))

StrVal(s) == [t |-> "str", v |-> s]

\* the double (-1)^neg * man * 2^exp, man odd or zero
FloatVal(neg, man, exp) ==
    [t |-> "float", neg |-> neg /\ man # <<>>, man |-> man, exp |-> exp]

\* digits, where single underscores may stand between two digits
IsDigitRun(s) ==
    /\ s # <<>>
    /\ \A k \in DOMAIN s : s[k] \in Digits \cup {"_"}
    /\ s[1] # "_" /\ s[Len(s)] # "_"
    /\ \A k \in 1..(Len(s) - 1) : ~(s[k] = "_" /\ s[k + 1] = "_")

\* the digits of a digit run
DigitsOf(s) == SelectSeq(s, LAMBDA c : c \in Digits)

HasSign(s) == s # <<>> /\ s[1] \in {"+", "-"}

\* an int(s) that reads 0 where int raises ValueError
ParseIntOrZero(s) ==
    Bind(Strip(s), LAMBDA t :
    Bind(IF HasSign(t) THEN Tail(t) ELSE t, LAMBDA body :
    IF IsDigitRun(body)
    THEN [ok |-> TRUE, val |-> IntVal(t[1] = "-", DecToBits(DigitsOf(body)))]
    ELSE [ok |-> TRUE, val |-> PyInt(0)]))

\* int(s): [ok |-> FALSE] stands for ValueError
ParseInt(s) ==
    Bind(Strip(s), LAMBDA t :
    Bind(IF HasSign(t) THEN Tail(t) ELSE t, LAMBDA body :
    IF IsDigitRun(body)
    THEN [ok |-> TRUE, val |-> IntVal(t[1] = "-", DecToBits(DigitsOf(body)))]
    ELSE [ok |-> FALSE]))

\* the limbs of a magnitude
BitsToLimbs(b) ==
    [j \in 1..((Len(b) + LimbBits - 1) \div LimbBits) |->
        ToNat(SubSeq(b, LimbBits * (j - 1) + 1, Min(LimbBits * j, Len(b))))]

RECURSIVE DivSmall(_, _)
\* the quotient and the remainder of the limbs ls by m, 0 < m <= 2^LimbBits
DivSmall(ls, m) ==
    IF ls = <<>> THEN [q |-> <<>>, r |-> 0]
    ELSE Bind(DivSmall(Tail(ls), m), LAMBDA hi :
         Bind(hi.r * Pow2(LimbBits) + ls[1], LAMBDA cur :
         [q |-> <<cur \div m>> \o hi.q, r |-> cur % m]))

RECURSIVE DivPow10(_, _, _)
\* the limbs ls divided by 10^k, rounded down; inexact says whether a
\* remainder was dropped
DivPow10(ls, k, inexact) ==
    IF k = 0 THEN [q |-> ls, inexact |-> inexact]
    ELSE Bind(DivSmall(ls, IF k >= 4 THEN 10000 ELSE 10), LAMBDA d :
         DivPow10(d.q, IF k >= 4 THEN k - 4 ELSE k - 1, inexact \/ d.r # 0))

\* man * 2^exp with the low zero bits of man moved into exp
Odd(man, exp) ==
    IF \A k \in DOMAIN man : man[k] = 0 THEN [man |-> <<>>, exp |-> 0]
    ELSE LET z == CHOOSE k \in DOMAIN man : man[k] = 1 /\ \A j \in 1..(k - 1) : man[j] = 0
         IN [man |-> SubSeq(man, z, Len(man)), exp |-> exp + z - 1]

\* the magnitude x * 2^exp, where inexact says that the true value is a little
\* more, rounded to the MantBits bits of a double, ties to even
RoundBits(neg, x, exp, inexact) ==
    IF Len(x) <= MantBits THEN FloatVal(neg, Odd(x, exp).man, Odd(x, exp).exp)
    ELSE Bind(Len(x) - MantBits, LAMBDA drop :
         Bind(SubSeq(x, drop + 1, Len(x)), LAMBDA kept :
         Bind(x[drop] = 1 /\ (\/ inexact
                              \/ \E j \in 1..(drop - 1) : x[j] = 1
                              \/ kept[1] = 1), LAMBDA up :
         Bind(Odd(IF up THEN Inc(kept) ELSE kept, exp + drop), LAMBDA o :
         FloatVal(neg, o.man, o.exp)))))

\* The double nearest to whole + frac / 10^Len(fracDigits), ties to even:
\* what float() makes of the decimal numeral whole.fracDigits.  The fraction
\* is scaled by 2^K, with K large enough for MantBits + 2 bits of the value,
\* and divided by the power of ten.
ToDouble(neg, whole, fracDigits) ==
    Bind(DecToBits(fracDigits), LAMBDA r :
    IF r = <<>> THEN RoundBits(neg, whole, 0, FALSE)
    ELSE Bind(IF whole # <<>> THEN Max(1, MantBits + 2 - Len(whole))
              ELSE MantBits + 2 + Len(DecToBits(<<"1">> \o fracDigits)) - Len(r),
         LAMBDA K :
         Bind(DivPow10(BitsToLimbs(Shl(r, K)), Len(fracDigits), FALSE), LAMBDA n :
         Bind(LimbsToBits(n.q), LAMBDA low :
         RoundBits(neg, Norm(low \o [j \in 1..(K - Len(low)) |-> 0] \o whole),
                   -K, n.inexact)))))

\* the position of the first "." of s, or 0
DotAt(s) == IF Contains(s, ".") THEN CHOOSE k \in DOMAIN s :
                 s[k] = "." /\ \A j \in 1..(k - 1) : s[j] # "." ELSE 0

\* a decimal numeral without sign or exponent: digits, digits.digits, digits. or
\* .digits
IsDecimal(s) ==
    Bind(DotAt(s), LAMBDA d :
    LET w == IF d = 0 THEN s ELSE SubSeq(s, 1, d - 1)
        f == IF d = 0 THEN <<>> ELSE DropFirst(s, d)
    IN /\ w # <<>> \/ f # <<>>
       /\ w = <<>> \/ IsDigitRun(w)
       /\ f = <<>> \/ IsDigitRun(f))

\* the position of the exponent letter of s, or 0
ExpAt(s) == IF \E k \in DOMAIN s : s[k] \in {"e", "E"}
            THEN CHOOSE k \in DOMAIN s :
                     s[k] \in {"e", "E"} /\ \A j \in 1..(k - 1) : s[j] \notin {"e", "E"}
            ELSE 0

\* the numeral made of the digits w before and f after the decimal point, with
\* the point moved e places to the right (to the left when eneg)
ShiftPoint(w, f, e, eneg) ==
    LET zeros(n) == [k \in 1..n |-> "0"]
    IN [whole |-> IF eneg THEN (IF e >= Len(w) THEN <<>> ELSE DropLast(w, e))
                  ELSE IF e >= Len(f) THEN w \o f \o zeros(e - Len(f))
                  ELSE w \o SubSeq(f, 1, e),
        frac |-> IF eneg THEN (IF e >= Len(w) THEN zeros(e - Len(w)) \o w \o f
                               ELSE SubSeq(w, Len(w) - e + 1, Len(w)) \o f)
                 ELSE IF e >= Len(f) THEN <<>> ELSE DropFirst(f, e)]

\* float(s): [ok |-> FALSE] stands for ValueError; inf and nan are floats.
\* An exponent moves the decimal point of the numeral before it is rounded.
ParseFloat(s) ==
    Bind(Strip(s), LAMBDA t :
    Bind(IF HasSign(t) THEN Tail(t) ELSE t, LAMBDA body :
    Bind(Lower(body), LAMBDA low :
    Bind(ExpAt(body), LAMBDA x :
    Bind(IF x = 0 THEN body ELSE SubSeq(body, 1, x - 1), LAMBDA mant :
    Bind(IF x = 0 THEN <<"0">> ELSE DropFirst(body, x), LAMBDA etext :
    Bind(IF HasSign(etext) THEN Tail(etext) ELSE etext, LAMBDA edigits :
    Bind(DotAt(mant), LAMBDA d :
    LET neg == t # <<>> /\ t[1] = "-"
    IN IF low \in {<<"i", "n", "f">>, <<"i", "n", "f", "i", "n", "i", "t", "y">>}
       THEN [ok |-> TRUE, val |-> [t |-> "float", neg |-> neg, special |-> "inf"]]
       ELSE IF low = <<"n", "a", "n">>
       THEN [ok |-> TRUE, val |-> [t |-> "float", neg |-> neg, special |-> "nan"]]
       ELSE IF IsDecimal(mant) /\ IsDigitRun(edigits)
       THEN Bind(ShiftPoint(DigitsOf(IF d = 0 THEN mant ELSE SubSeq(mant, 1, d - 1)),
                            DigitsOf(IF d = 0 THEN <<>> ELSE DropFirst(mant, d)),
                            ToNat(DecToBits(DigitsOf(edigits))),
                            etext[1] = "-"), LAMBDA n :
            [ok |-> TRUE, val |-> ToDouble(neg, DecToBits(n.whole), n.frac)])
       ELSE [ok |-> FALSE]))))))))

\* int(x) of a finite double x >= 0: truncation
FloatToInt(x) ==
    IntVal(x.neg, IF x.exp >= 0 THEN Shl(x.man, x.exp) ELSE Shr(x.man, -x.exp))

\* x * 2^k for a finite double x
Scale(x, k) == IF x.man = <<>> THEN x ELSE FloatVal(x.neg, x.man, x.exp + k)

\* a < b for magnitudes
MagLess(a, b) ==
    \/ Len(a) < Len(b)
    \/ /\ Len(a) = Len(b)
       /\ \E k \in DOMAIN a : a[k] < b[k] /\ \A j \in (k + 1)..Len(a) : a[j] = b[j]

\* x < y for ints
IntLess(x, y) ==
    IF x.neg # y.neg THEN x.neg
    ELSE IF x.neg THEN MagLess(y.mag, x.mag) ELSE MagLess(x.mag, y.mag)

\* min(x, y) and max(x, y) for ints
IntMin(x, y) == IF IntLess(y, x) THEN y ELSE x

\* a max that returns its second argument
IntMaxSecond(x, y) == y

IntMax(x, y) == IF IntLess(x, y) THEN y ELSE x

----------------------------------------------------------------------------
(* The lookup tables of the class                                          *)

\* dict.get(key, default) on a table of <<key, value>> pairs
Get(table, key, default) ==
    IF \E e \in table : e[1] = key
    THEN (CHOOSE e \in table : e[1] = key)[2]
    ELSE default

FIELD_ALIASES == {
    <<<<"t", "y", "p", "e">>, <<"f", "i", "l", "e", "_", "t", "y", "p", "e">>>>,
    <<<<"e", "x", "t">>, <<"f", "i", "l", "e", "_", "t", "y", "p", "e">>>>,
    <<<<"e", "x", "t", "e", "n", "s", "i", "o", "n">>, <<"f", "i", "l", "e", "_", "t", "y", "p", "e">>>>,
    <<<<"f", "i", "l", "e", "t", "y", "p", "e">>, <<"f", "i", "l", "e", "_", "t", "y", "p", "e">>>>,
    <<<<"u", "s", "e", "r">>, <<"o", "w", "n", "e", "r">>>>,
    <<<<"c", "r", "e", "a", "t", "o", "r">>, <<"o", "w", "n", "e", "r">>>>,
    <<<<"a", "u", "t", "h", "o", "r">>, <<"o", "w", "n", "e", "r">>>>,
    <<<<"i", "d">>, <<"p", "o", "s", "t", "_", "i", "d">>>>,
    <<<<"t", "a", "g", "-", "c", "o", "u", "n", "t">>, <<"t", "a", "g", "_", "c", "o", "u", "n", "t">>>>,
    <<<<"t", "a", "g", "c", "o", "u", "n", "t">>, <<"t", "a", "g", "_", "c", "o", "u", "n", "t">>>>,
    <<<<"t", "a", "g", "s">>, <<"t", "a", "g", "_", "c", "o", "u", "n", "t">>>>,
    <<<<"s", "i", "z", "e">>, <<"f", "i", "l", "e", "_", "s", "i", "z", "e">>>>,
    <<<<"f", "i", "l", "e", "s", "i", "z", "e">>, <<"f", "i", "l", "e", "_", "s", "i", "z", "e">>>>,
    <<<<"f", "i", "l", "e", "-", "s", "i", "z", "e">>, <<"f", "i", "l", "e", "_", "s", "i", "z", "e">>>>,
    <<<<"m", "a", "t", "c", "h", "i", "n", "g", "-", "t", "a", "g", "s">>, <<"m", "a", "t", "c", "h", "i", "n", "g", "_", "t", "a", "g", "s">>>>,
    <<<<"m", "a", "t", "c", "h", "i", "n", "g", "t", "a", "g", "s">>, <<"m", "a", "t", "c", "h", "i", "n", "g", "_", "t", "a", "g", "s">>>>,
    <<<<"m", "a", "t", "c", "h", "e", "s">>, <<"m", "a", "t", "c", "h", "i", "n", "g", "_", "t", "a", "g", "s">>>>,
    <<<<"d", "a", "t", "e", "-", "c", "r", "e", "a", "t", "e", "d">>, <<"c", "r", "e", "a", "t", "e", "d", "_", "a", "t">>>>,
    <<<<"d", "a", "t", "e", "c", "r", "e", "a", "t", "e", "d">>, <<"c", "r", "e", "a", "t", "e", "d", "_", "a", "t">>>>,
    <<<<"u", "p", "l", "o", "a", "d", "-", "d", "a", "t", "e">>, <<"c", "r", "e", "a", "t", "e", "d", "_", "a", "t">>>>,
    <<<<"u", "p", "l", "o", "a", "d", "e", "d">>, <<"c", "r", "e", "a", "t", "e", "d", "_", "a", "t">>>>,
    <<<<"d", "a", "t", "e", "-", "d", "o", "w", "n", "l", "o", "a", "d", "e", "d">>, <<"d", "o", "w", "n", "l", "o", "a", "d", "e", "d", "_", "a", "t">>>>,
    <<<<"d", "a", "t", "e", "d", "o", "w", "n", "l", "o", "a", "d", "e", "d">>, <<"d", "o", "w", "n", "l", "o", "a", "d", "e", "d", "_", "a", "t">>>>,
    <<<<"d", "o", "w", "n", "l", "o", "a", "d", "-", "d", "a", "t", "e">>, <<"d", "o", "w", "n", "l", "o", "a", "d", "e", "d", "_", "a", "t">>>>,
    <<<<"d", "o", "w", "n", "l", "o", "a", "d", "e", "d">>, <<"d", "o", "w", "n", "l", "o", "a", "d", "e", "d", "_", "a", "t">>>>,
    <<<<"a", "s", "p", "e", "c", "t", "-", "r", "a", "t", "i", "o">>, <<"a", "s", "p", "e", "c", "t", "_", "r", "a", "t", "i", "o">>>>,
    <<<<"a", "s", "p", "e", "c", "t", "r", "a", "t", "i", "o">>, <<"a", "s", "p", "e", "c", "t", "_", "r", "a", "t", "i", "o">>>>,
    <<<<"r", "a", "t", "i", "o">>, <<"a", "s", "p", "e", "c", "t", "_", "r", "a", "t", "i", "o">>>>}

NUMERIC_FIELDS == {
    <<"s", "c", "o", "r", "e">>, <<"w", "i", "d", "t", "h">>, <<"h", "e", "i", "g", "h", "t">>, <<"p", "o", "s", "t", "_", "i", "d">>, <<"t", "a", "g", "_", "c", "o", "u", "n", "t">>,
    <<"f", "i", "l", "e", "_", "s", "i", "z", "e">>, <<"d", "u", "r", "a", "t", "i", "o", "n">>, <<"m", "a", "t", "c", "h", "i", "n", "g", "_", "t", "a", "g", "s">>, <<"a", "s", "p", "e", "c", "t", "_", "r", "a", "t", "i", "o">>}

TEXT_FIELDS == {<<"o", "w", "n", "e", "r">>, <<"t", "i", "t", "l", "e">>, <<"r", "a", "t", "i", "n", "g">>, <<"f", "i", "l", "e", "_", "t", "y", "p", "e">>}

DATE_FIELDS == {<<"c", "r", "e", "a", "t", "e", "d", "_", "a", "t">>, <<"d", "o", "w", "n", "l", "o", "a", "d", "e", "d", "_", "a", "t">>}

\* unit -> the power of two of its multiplier: 1024^n = 2^(10 n)
SIZE_UNITS == {
    <<<<"b">>, 0>>,
    <<<<"b", "y", "t", "e">>, 0>>, <<<<"b", "y", "t", "e", "s">>, 0>>,
    <<<<"k", "b">>, 10>>, <<<<"k", "i", "l", "o", "b", "y", "t", "e">>, 10>>, <<<<"k", "i", "l", "o", "b", "y", "t", "e", "s">>, 10>>,
    <<<<"m", "b">>, 20>>, <<<<"m", "e", "g", "a", "b", "y", "t", "e">>, 20>>, <<<<"m", "e", "g", "a", "b", "y", "t", "e", "s">>, 20>>,
    <<<<"g", "b">>, 30>>, <<<<"g", "i", "g", "a", "b", "y", "t", "e">>, 30>>, <<<<"g", "i", "g", "a", "b", "y", "t", "e", "s">>, 30>>,
    <<<<"t", "b">>, 40>>, <<<<"t", "e", "r", "a", "b", "y", "t", "e">>, 40>>, <<<<"t", "e", "r", "a", "b", "y", "t", "e", "s">>, 40>>}

SORT_ALIASES == {
    <<<<"d", "o", "w", "n", "l", "o", "a", "d">>, <<"d", "o", "w", "n", "l", "o", "a", "d", "e", "d", "_", "a", "t">>>>,
    <<<<"d", "o", "w", "n", "l", "o", "a", "d", "-", "d", "a", "t", "e">>, <<"d", "o", "w", "n", "l", "o", "a", "d", "e", "d", "_", "a", "t">>>>,
    <<<<"d", "o", "w", "n", "l", "o", "a", "d", "_", "d", "a", "t", "e">>, <<"d", "o", "w", "n", "l", "o", "a", "d", "e", "d", "_", "a", "t">>>>,
    <<<<"d", "o", "w", "n", "l", "o", "a", "d", "e", "d">>, <<"d", "o", "w", "n", "l", "o", "a", "d", "e", "d", "_", "a", "t">>>>,
    <<<<"u", "p", "l", "o", "a", "d">>, <<"c", "r", "e", "a", "t", "e", "d", "_", "a", "t">>>>,
    <<<<"u", "p", "l", "o", "a", "d", "-", "d", "a", "t", "e">>, <<"c", "r", "e", "a", "t", "e", "d", "_", "a", "t">>>>,
    <<<<"u", "p", "l", "o", "a", "d", "_", "d", "a", "t", "e">>, <<"c", "r", "e", "a", "t", "e", "d", "_", "a", "t">>>>,
    <<<<"u", "p", "l", "o", "a", "d", "e", "d">>, <<"c", "r", "e", "a", "t", "e", "d", "_", "a", "t">>>>,
    <<<<"c", "r", "e", "a", "t", "e", "d">>, <<"c", "r", "e", "a", "t", "e", "d", "_", "a", "t">>>>,
    <<<<"i", "d">>, <<"p", "o", "s", "t", "_", "i", "d">>>>,
    <<<<"p", "o", "s", "t", "-", "i", "d">>, <<"p", "o", "s", "t", "_", "i", "d">>>>,
    <<<<"p", "o", "s", "t", "_", "i", "d">>, <<"p", "o", "s", "t", "_", "i", "d">>>>,
    <<<<"t", "a", "g", "s">>, <<"t", "a", "g", "_", "c", "o", "u", "n", "t">>>>,
    <<<<"t", "a", "g", "-", "c", "o", "u", "n", "t">>, <<"t", "a", "g", "_", "c", "o", "u", "n", "t">>>>,
    <<<<"t", "a", "g", "_", "c", "o", "u", "n", "t">>, <<"t", "a", "g", "_", "c", "o", "u", "n", "t">>>>,
    <<<<"t", "a", "g", "c", "o", "u", "n", "t">>, <<"t", "a", "g", "_", "c", "o", "u", "n", "t">>>>,
    <<<<"f", "i", "l", "e", "-", "s", "i", "z", "e">>, <<"f", "i", "l", "e", "_", "s", "i", "z", "e">>>>,
    <<<<"f", "i", "l", "e", "s", "i", "z", "e">>, <<"f", "i", "l", "e", "_", "s", "i", "z", "e">>>>,
    <<<<"f", "i", "l", "e", "_", "s", "i", "z", "e">>, <<"f", "i", "l", "e", "_", "s", "i", "z", "e">>>>,
    <<<<"s", "i", "z", "e">>, <<"f", "i", "l", "e", "_", "s", "i", "z", "e">>>>,
    <<<<"s", "c", "o", "r", "e">>, <<"s", "c", "o", "r", "e">>>>,
    <<<<"w", "i", "d", "t", "h">>, <<"w", "i", "d", "t", "h">>>>,
    <<<<"h", "e", "i", "g", "h", "t">>, <<"h", "e", "i", "g", "h", "t">>>>,
    <<<<"o", "w", "n", "e", "r">>, <<"o", "w", "n", "e", "r">>>>,
    <<<<"u", "s", "e", "r">>, <<"o", "w", "n", "e", "r">>>>,
    <<<<"c", "r", "e", "a", "t", "o", "r">>, <<"o", "w", "n", "e", "r">>>>,
    <<<<"r", "a", "t", "i", "n", "g">>, <<"r", "a", "t", "i", "n", "g">>>>,
    <<<<"d", "u", "r", "a", "t", "i", "o", "n">>, <<"d", "u", "r", "a", "t", "i", "o", "n">>>>,
    <<<<"t", "i", "m", "e">>, <<"d", "u", "r", "a", "t", "i", "o", "n">>>>,
    <<<<"l", "e", "n", "g", "t", "h">>, <<"d", "u", "r", "a", "t", "i", "o", "n">>>>,
    <<<<"t", "i", "m", "e", "s", "t", "a", "m", "p">>, <<"t", "i", "m", "e", "s", "t", "a", "m", "p">>>>,
    <<<<"r", "a", "n", "d", "o", "m">>, <<"r", "a", "n", "d", "o", "m">>>>}

\* self.exclusion_prefixes, in the order the code tries them
exclusion_prefixes ==
    <<<<"-">>, <<"!">>, <<"e", "x", "c", "l", "u", "d", "e", ":">>, <<"r", "e", "m", "o", "v", "e", ":">>, <<"n", "e", "g", "a", "t", "e", ":">>, <<"n", "o", "t", ":">>>>

----------------------------------------------------------------------------
(* Metadata extraction                                                     *)

\* QueryMetadata()
QueryMetadata == [sort_by |-> NoneVal, sort_order |-> NoneVal, per_page |-> NoneVal]

ASC == StrVal(<<"A", "S", "C">>)

DESC == StrVal(<<"D", "E", "S", "C">>)

RECURSIVE StripQuotes(_)
\* value.strip('"\'')
StripQuotes(s) ==
    IF s # <<>> /\ s[1] \in {"\"", "'"} THEN StripQuotes(Tail(s))
    ELSE IF s # <<>> /\ s[Len(s)] \in {"\"", "'"} THEN StripQuotes(DropLast(s, 1))
    ELSE s

RECURSIVE SplitOn(_, _)
\* s.split(sep) for a one-character separator
SplitOn(s, sep) ==
    IF ~Contains(s, sep) THEN <<s>>
    ELSE LET k == CHOOSE k \in DOMAIN s : s[k] = sep /\ \A j \in 1..(k - 1) : s[j] # sep
         IN <<SubSeq(s, 1, k - 1)>> \o SplitOn(DropFirst(s, k), sep)

\* a reading of the markers that takes '>' for descending and '<' for
\* ascending wherever they stand, and knows no suffix
SortDirectionByGlyph(value) ==
    IF EndsWith(value, <<">">>) THEN [field |-> DropLast(value, 1), order |-> DESC]
    ELSE IF StartsWith(value, <<">">>) THEN [field |-> Tail(value), order |-> DESC]
    ELSE IF EndsWith(value, <<"<">>) THEN [field |-> DropLast(value, 1), order |-> ASC]
    ELSE IF StartsWith(value, <<"<">>) THEN [field |-> Tail(value), order |-> ASC]
    ELSE [field |-> value, order |-> NoneVal]

\* the field and the order that the direction marker of a sort value gives
SortDirection(value) ==
    IF EndsWith(value, <<">">>) THEN [field |-> DropLast(value, 1), order |-> ASC]
    ELSE IF StartsWith(value, <<">">>) THEN [field |-> Tail(value), order |-> DESC]
    ELSE IF EndsWith(value, <<"<">>) THEN [field |-> DropLast(value, 1), order |-> DESC]
    ELSE IF StartsWith(value, <<"<">>) THEN [field |-> Tail(value), order |-> ASC]
    ELSE IF EndsWith(value, <<"-", "d", "e", "s", "c">>) \/ EndsWith(value, <<"_", "d", "e", "s", "c">>)
    THEN [field |-> DropLast(value, 5), order |-> DESC]
    ELSE IF EndsWith(value, <<"-", "d", "e", "s", "c", "e", "n", "d", "i", "n", "g">>) \/ EndsWith(value, <<"_", "d", "e", "s", "c", "e", "n", "d", "i", "n", "g">>)
    THEN [field |-> DropLast(value, 11), order |-> DESC]
    ELSE IF EndsWith(value, <<"-", "a", "s", "c">>) \/ EndsWith(value, <<"_", "a", "s", "c">>)
    THEN [field |-> DropLast(value, 4), order |-> ASC]
    ELSE IF EndsWith(value, <<"-", "a", "s", "c", "e", "n", "d", "i", "n", "g">>) \/ EndsWith(value, <<"_", "a", "s", "c", "e", "n", "d", "i", "n", "g">>)
    THEN [field |-> DropLast(value, 10), order |-> ASC]
    ELSE [field |-> value, order |-> NoneVal]

\* _parse_sort_value(value) for a non-empty value: <<sort_by, sort_order>>
ParseSortValue(value0) ==
    Bind(SortDirection(StripQuotes(value0)), LAMBDA d :
    LET field == d.field
        dashed(f) == ReplaceChar(Lower(f), " ", "-")
    IN IF Contains(field, ";") \/ Contains(field, ",")
       THEN Bind(SplitOn(field, IF Contains(field, ";") THEN ";" ELSE ","),
            LAMBDA fields :
            <<StrVal(Join(<<",">>,
                  [k \in DOMAIN fields |->
                      Bind(Strip(fields[k]), LAMBDA f :
                           Get(SORT_ALIASES, dashed(f), f))])),
              d.order>>)
       ELSE Bind(dashed(field), LAMBDA lowered :
            <<StrVal(Get(SORT_ALIASES, lowered, lowered)), d.order>>))

\* the clamp of a per-page value
PerPageMin == 1

PerPageMax == 200

RECURSIVE ExtractLoop(_, _, _)
\* the while loop of _extract_metadata over the tokens of query.split()
ExtractLoop(tokens, metadata, clean_parts) ==
    IF tokens = <<>> THEN [clean_query |-> Join(<<" ">>, clean_parts), metadata |-> metadata]
    ELSE Bind(tokens[1], LAMBDA token :
         Bind(Lower(token), LAMBDA lowered :
         Bind(IF StartsWith(lowered, <<"s", "o", "r", "t", ":">>)
              THEN Bind(ParseSortValue(DropFirst(token, 5)), LAMBDA sv :
                   [clean_parts |-> clean_parts,
                    metadata |-> IF DropFirst(token, 5) # <<>>
                                 THEN [metadata EXCEPT !.sort_by = sv[1],
                                                       !.sort_order = sv[2]]
                                 ELSE metadata])
              ELSE IF StartsWith(lowered, <<"p", "e", "r", "-", "p", "a", "g", "e", ":">>)
              THEN Bind(ParseInt(DropFirst(token, 9)), LAMBDA per_page :
                   [clean_parts |-> clean_parts,
                    metadata |-> IF per_page.ok
                                 THEN [metadata EXCEPT !.per_page =
                                          IntMax(PyInt(PerPageMin),
                                                 IntMin(per_page.val, PyInt(PerPageMax)))]
                                 ELSE metadata])
              ELSE [clean_parts |-> Append(clean_parts, token), metadata |-> metadata],
         LAMBDA next : ExtractLoop(Tail(tokens), next.metadata, next.clean_parts))))

\* an extraction that reads the directives and leaves them in the clean query
ExtractMetadataKeeping(query) ==
    [clean_query |-> Join(<<" ">>, Split(query)),
     metadata |-> ExtractLoop(Split(query), QueryMetadata, <<>>).metadata]

\* _extract_metadata(query): the clean query and the metadata
ExtractMetadata(query) == ExtractLoop(Split(query), QueryMetadata, <<>>)

----------------------------------------------------------------------------
(* Tokenizer                                                               *)

\* the window _is_field_prefix scans backward
FieldPrefixWindow == 50

\* _is_field_prefix(text, pos): re.search(r'(\w+):([^\s]*?)$', text[pos-50:pos]);
\* $ matches at the end and before a newline that ends the string
IsFieldPrefix(text, pos) ==
    IF pos = 0 THEN FALSE
    ELSE LET check_start == Max(0, pos - FieldPrefixWindow)
             substring == SubSeq(text, check_start + 1, pos)
             n == Len(substring)
             stop == IF substring[n] = "\n" THEN {n - 1, n} ELSE {n}
         IN \E j \in 2..n :
               /\ substring[j] = ":"
               /\ IsWord(substring[j - 1])
               /\ \E e \in stop : e >= j /\ \A k \in (j + 1)..e : ~IsSpace(substring[k])

\* the separators that stand for OR inside a group
OrSeparators == {"|", "~", ","}

\* the local variables of _tokenize before the loop
TokenizeStart ==
    [tokens |-> <<>>, buffer |-> <<>>, paren_depth |-> 0, in_field_value |-> FALSE, i |-> 0]

\* tokens.append(buffer.strip()) if buffer.strip(), and buffer = ''
Flush(st) ==
    IF Strip(st.buffer) # <<>>
    THEN [st EXCEPT !.tokens = Append(@, Strip(st.buffer)), !.buffer = <<>>]
    ELSE st

\* the branch of the loop body for char == '('
OpenParen(query, st) ==
    LET is_tag_paren ==
            \/ st.in_field_value
            \/ IsFieldPrefix(query, st.i)
            \/ st.buffer # <<>> /\ IsWord(st.buffer[Len(st.buffer)])
    IN IF is_tag_paren THEN [st EXCEPT !.buffer = Append(@, "(")]
       ELSE LET f == IF st.paren_depth = 0 THEN Flush(st) ELSE st
            IN [f EXCEPT !.paren_depth = @ + 1, !.tokens = Append(@, <<"(">>)]

\* a branch for ')' that closes a group also when none is open
CloseParenAtAnyDepth(query, st) ==
    LET is_tag_paren ==
            \/ st.in_field_value
            \/ IsFieldPrefix(query, st.i + 1)
            \/ st.i + 1 < Len(query) /\ IsWord(query[st.i + 2])
    IN IF is_tag_paren THEN [st EXCEPT !.buffer = Append(@, ")")]
       ELSE [Flush(st) EXCEPT !.paren_depth = @ - 1, !.tokens = Append(@, <<")">>)]

\* the branch of the loop body for char == ')'
CloseParen(query, st) ==
    LET is_tag_paren ==
            \/ st.in_field_value
            \/ IsFieldPrefix(query, st.i + 1)
            \/ st.i + 1 < Len(query) /\ IsWord(query[st.i + 2])
            \/ st.paren_depth = 0
    IN IF is_tag_paren THEN [st EXCEPT !.buffer = Append(@, ")")]
       ELSE [Flush(st) EXCEPT !.paren_depth = @ - 1, !.tokens = Append(@, <<")">>)]

\* the branch of the loop body for char == ' '
Space(query, st) ==
    IF st.paren_depth = 0 THEN Flush(st)
    ELSE IF Strip(st.buffer) # <<>>
    THEN LET rest == {k \in (st.i + 2)..Len(query) : query[k] # " "}
             next_idx == IF rest = {} THEN Len(query)
                         ELSE (CHOOSE k \in rest : \A j \in rest : k <= j) - 1
         IN IF next_idx < Len(query) /\ query[next_idx + 1] \in OrSeparators \cup {")", "("}
            THEN Flush(st)
            ELSE [st EXCEPT !.buffer = Append(@, " ")]
    ELSE st

\* a loop body whose branch for ':' after a field name leaves i as it is
TokenizeStepInPlace(query, st0) ==
    LET char == query[st0.i + 1]
        buffer == st0.buffer
    IN IF char = ":" /\ buffer # <<>> /\ IsAlnum(buffer[Len(buffer)])
       THEN [st0 EXCEPT !.buffer = Append(@, char), !.in_field_value = TRUE]
       ELSE LET st == IF char = " " /\ st0.paren_depth = 0
                      THEN [st0 EXCEPT !.in_field_value = FALSE] ELSE st0
                done == IF char = "(" THEN OpenParen(query, st)
                        ELSE IF char = ")" THEN CloseParen(query, st)
                        ELSE IF char \in OrSeparators /\ st.paren_depth > 0
                        THEN [Flush(st) EXCEPT !.tokens = Append(@, <<"|">>)]
                        ELSE IF char = " " THEN Space(query, st)
                        ELSE [st EXCEPT !.buffer = Append(@, char)]
            IN [done EXCEPT !.i = @ + 1]

\* one pass through the body of the while loop of _tokenize, at query[i]
TokenizeStep(query, st0) ==
    LET char == query[st0.i + 1]
        buffer == st0.buffer
    IN IF char = ":" /\ buffer # <<>> /\ IsAlnum(buffer[Len(buffer)])
       THEN [st0 EXCEPT !.buffer = Append(@, char), !.in_field_value = TRUE, !.i = @ + 1]
       ELSE LET st == IF char = " " /\ st0.paren_depth = 0
                      THEN [st0 EXCEPT !.in_field_value = FALSE] ELSE st0
                done == IF char = "(" THEN OpenParen(query, st)
                        ELSE IF char = ")" THEN CloseParen(query, st)
                        ELSE IF char \in OrSeparators /\ st.paren_depth > 0
                        THEN [Flush(st) EXCEPT !.tokens = Append(@, <<"|">>)]
                        ELSE IF char = " " THEN Space(query, st)
                        ELSE [st EXCEPT !.buffer = Append(@, char)]
            IN [done EXCEPT !.i = @ + 1]

\* the end of _tokenize: the last flush and the filter of empty tokens
TokenizeEnd(st) == SelectSeq(Flush(st).tokens, LAMBDA t : t # <<>>)

RECURSIVE TokenizeFrom(_, _)
\* the while loop of _tokenize from the state st
TokenizeFrom(query, st) ==
    IF st.i < Len(query) THEN TokenizeFrom(query, TokenizeStep(query, st)) ELSE st

\* _tokenize(query)
Tokenize(query) == TokenizeEnd(TokenizeFrom(query, TokenizeStart))

----------------------------------------------------------------------------
(* Dates: datetime.fromtimestamp, datetime.strptime, datetime.strftime     *)

\* the civil date of a day number counted from 1970-01-01
CivilFromDays(days) ==
    Bind(days + 719468, LAMBDA z :
    Bind(z \div 146097, LAMBDA era :
    Bind(z - era * 146097, LAMBDA doe :
    Bind((doe - doe \div 1460 + doe \div 36524 - doe \div 146096) \div 365, LAMBDA yoe :
    Bind(doe - (365 * yoe + yoe \div 4 - yoe \div 100), LAMBDA doy :
    Bind((5 * doy + 2) \div 153, LAMBDA mp :
    Bind(IF mp < 10 THEN mp + 3 ELSE mp - 9, LAMBDA m :
    [Y |-> yoe + era * 400 + (IF m <= 2 THEN 1 ELSE 0), m |-> m,
     d |-> doy - (153 * mp + 2) \div 5 + 1])))))))

\* datetime.fromtimestamp(timestamp) in a zone offset seconds east of UTC, for
\* a magnitude timestamp below 2^38: a day has 86400 = 675 * 2^7 seconds
FromTimestamp(timestamp, offset) ==
    Bind(ToNat(Shr(timestamp, 7)), LAMBDA q :
    Bind((q % 675) * 128 + ToNat(SubSeq(timestamp, 1, Min(7, Len(timestamp)))) + offset,
         LAMBDA secs :
    Bind(CivilFromDays(q \div 675 + secs \div 86400), LAMBDA date :
    Bind(secs % 86400, LAMBDA sod :
    [Y |-> date.Y, m |-> date.m, d |-> date.d,
     H |-> sod \div 3600, M |-> (sod % 3600) \div 60, S |-> sod % 60]))))

RECURSIVE NatToDec(_)
\* str(n) for n >= 0
NatToDec(n) == IF n < 10 THEN <<DigitSeq[n + 1]>> ELSE Append(NatToDec(n \div 10), DigitSeq[(n % 10) + 1])

\* '%02d' % n
Pad2(n) == IF n < 10 THEN <<"0">> \o NatToDec(n) ELSE NatToDec(n)

\* strftime('%Y-%m-%d') and strftime('%Y-%m-%d %H:%M:%S')
FormatDate(dt) == NatToDec(dt.Y) \o <<"-">> \o Pad2(dt.m) \o <<"-">> \o Pad2(dt.d)

FormatDateTime(dt) ==
    FormatDate(dt) \o <<" ">> \o Pad2(dt.H) \o <<":">> \o Pad2(dt.M) \o <<":">> \o Pad2(dt.S)

\* the number a string of at most two digits stands for
TwoDigits(s) == IF Len(s) = 1 THEN DigitVal(s[1]) ELSE 10 * DigitVal(s[1]) + DigitVal(s[2])

AllDigits(s) == s # <<>> /\ \A k \in DOMAIN s : s[k] \in Digits

\* the alternatives of strptime's regular expression for the directive dir, as
\* the texts t they accept
DirectiveOk(dir, t) ==
    Bind(Len(t) = 2 /\ AllDigits(t), LAMBDA two :
    Bind(Len(t) = 1 /\ AllDigits(t), LAMBDA one :
    Bind(IF two \/ one THEN TwoDigits(t) ELSE -1, LAMBDA n :
    CASE dir = "Y" -> Len(t) = 4 /\ AllDigits(t)
      [] dir = "m" -> (two /\ n \in 1..12) \/ (one /\ n \in 1..9)
      [] dir = "d" -> \/ two /\ n \in 1..31
                      \/ one /\ n \in 1..9
                      \/ Len(t) = 2 /\ t[1] = " " /\ t[2] \in Digits \ {"0"}
      [] dir = "H" -> (two /\ n \in 0..23) \/ one
      [] dir = "M" -> (two /\ n \in 0..59) \/ one
      [] dir = "S" -> (two /\ n \in 0..61) \/ one)))

Directives == {"Y", "m", "d", "H", "M", "S"}

\* the value of the text t that a directive matched
DirectiveValue(dir, t) ==
    IF dir = "Y" THEN 100 * TwoDigits(SubSeq(t, 1, 2)) + TwoDigits(SubSeq(t, 3, 4))
    ELSE TwoDigits(SelectSeq(t, LAMBDA c : c # " "))

RECURSIVE StrpMatch(_, _, _)
RECURSIVE StrpTry(_, _, _, _)
RECURSIVE SpaceTry(_, _, _, _)

\* the match of the directive fmt[1] against the first n characters of s and
\* of the rest of the format against what follows, when there is one; the
\* next shorter alternative otherwise
StrpTry(fmt, s, fields, n) ==
    IF n = 0 THEN [ok |-> FALSE]
    ELSE Bind(IF Len(s) >= n /\ DirectiveOk(fmt[1], SubSeq(s, 1, n))
              THEN StrpMatch(Tail(fmt), DropFirst(s, n),
                       [fields EXCEPT ![fmt[1]] = DirectiveValue(fmt[1], SubSeq(s, 1, n))])
              ELSE [ok |-> FALSE],
         LAMBDA r : IF r.ok THEN r ELSE StrpTry(fmt, s, fields, n - 1))

\* the match of \s+ against the first n characters of s, which are spaces, and
\* of the rest of the format against what follows; fewer spaces otherwise
SpaceTry(fmt, s, fields, n) ==
    IF n = 0 THEN [ok |-> FALSE]
    ELSE Bind(StrpMatch(Tail(fmt), DropFirst(s, n), fields),
         LAMBDA r : IF r.ok THEN r ELSE SpaceTry(fmt, s, fields, n - 1))

\* The first match of the regular expression of a format at the start of s,
\* as the regex engine finds it (longer alternative first, backtracking): the
\* directive values and the text left over.  A format is a sequence of
\* directives and literal characters; a space of the format stands for \s+.
StrpMatch(fmt, s, fields) ==
    IF fmt = <<>> THEN [ok |-> TRUE, fields |-> fields, rest |-> s]
    ELSE IF fmt[1] \in Directives
    THEN StrpTry(fmt, s, fields, IF fmt[1] = "Y" THEN 4 ELSE 2)
    ELSE IF fmt[1] = " "
    THEN Bind(IF \E k \in DOMAIN s : ~IsSpace(s[k])
              THEN (CHOOSE k \in DOMAIN s :
                        ~IsSpace(s[k]) /\ \A j \in 1..(k - 1) : IsSpace(s[j])) - 1
              ELSE Len(s),
         LAMBDA run : SpaceTry(fmt, s, fields, run))
    ELSE IF s # <<>> /\ s[1] = fmt[1] THEN StrpMatch(Tail(fmt), Tail(s), fields)
    ELSE [ok |-> FALSE]

IsLeap(y) == (y % 4 = 0 /\ y % 100 # 0) \/ y % 400 = 0

DaysInMonth(y, m) ==
    IF m = 2 THEN (IF IsLeap(y) THEN 29 ELSE 28)
    ELSE IF m \in {4, 6, 9, 11} THEN 30 ELSE 31

\* datetime.strptime(s, fmt): [ok |-> FALSE] stands for ValueError (no match,
\* unconverted data, or a date that does not exist)
Strptime(s, fmt) ==
    Bind(StrpMatch(fmt, s, [Y |-> 1900, m |-> 1, d |-> 1, H |-> 0, M |-> 0, S |-> 0]),
         LAMBDA r :
    IF r.ok /\ r.rest = <<>> /\ r.fields.Y >= 1
            /\ r.fields.d <= DaysInMonth(r.fields.Y, r.fields.m) /\ r.fields.S <= 59
    THEN [ok |-> TRUE, dt |-> r.fields]
    ELSE [ok |-> FALSE])

\* datetime_formats and date_formats of _parse_date_filter, in order
datetime_formats == <<
    <<"Y", "-", "m", "-", "d", " ", "H", ":", "M", ":", "S">>,
    <<"Y", "-", "m", "-", "d", " ", "H", ":", "M">>,
    <<"Y", "/", "m", "/", "d", " ", "H", ":", "M", ":", "S">>,
    <<"Y", "/", "m", "/", "d", " ", "H", ":", "M">>,
    <<"m", "-", "d", "-", "Y", " ", "H", ":", "M", ":", "S">>,
    <<"m", "-", "d", "-", "Y", " ", "H", ":", "M">>,
    <<"d", "-", "m", "-", "Y", " ", "H", ":", "M", ":", "S">>,
    <<"d", "-", "m", "-", "Y", " ", "H", ":", "M">> >>

date_formats == <<
    <<"Y", "-", "m", "-", "d">>,
    <<"Y", "/", "m", "/", "d">>,
    <<"m", "-", "d", "-", "Y">>,
    <<"m", "/", "d", "/", "Y">>,
    <<"d", "-", "m", "-", "Y">>,
    <<"d", "/", "m", "/", "Y">>,
    <<"Y", "m", "d">> >>

RECURSIVE TryFormats(_, _)
\* for fmt in formats: try strptime(s, fmt), break at the first that parses
TryFormats(s, formats) ==
    IF formats = <<>> THEN [ok |-> FALSE]
    ELSE Bind(Strptime(s, formats[1]), LAMBDA r :
         IF r.ok THEN r ELSE TryFormats(s, Tail(formats)))

----------------------------------------------------------------------------
(* Filter-token interpreter                                                *)

\* FilterNode(type='FILTER', key=..., value=..., operator=..., is_negated=...)
FilterNode(key, value, operator, is_negated) ==
    [type |-> "FILTER", key |-> StrVal(key), value |-> value,
     operator |-> StrVal(operator), is_negated |-> is_negated, children |-> <<>>]

\* FilterNode(type='AND' or 'OR', children=...)
GroupNode(type, children) ==
    [type |-> type, key |-> NoneVal, value |-> NoneVal,
     operator |-> NoneVal, is_negated |-> FALSE, children |-> children]

ValueError == [ok |-> FALSE, exc |-> "ValueError"]

OverflowError == [ok |-> FALSE, exc |-> "OverflowError"]

\* the operators [<>]=?|= of the regular expressions of _parse_flexible_operator
IsOperator(s) == s \in {<<"<">>, <<">">>, <<"<", "=">>, <<">", "=">>, <<"=">>}

\* an operator found at the end of the value taken as it stands
ReverseOperatorKept(op) == op

\* the reversal of an operator found at the end of the value
ReverseOperator(op) ==
    IF op = <<">">> THEN <<"<">>
    ELSE IF op = <<"<">> THEN <<">">>
    ELSE IF op = <<">", "=">> THEN <<"<", "=">>
    ELSE IF op = <<"<", "=">> THEN <<">", "=">>
    ELSE op

\* _parse_flexible_operator(value): the operator and the rest.
\* At the start the longest operator that leaves a non-empty rest is taken
\* (greedy =? and .+); at the end the shortest rest, so the longest operator
\* (lazy .+?), is taken.
ParseFlexibleOperator(value) ==
    LET n == Len(value) IN
    IF n >= 3 /\ IsOperator(SubSeq(value, 1, 2))
    THEN <<SubSeq(value, 1, 2), DropFirst(value, 2)>>
    ELSE IF n >= 2 /\ IsOperator(SubSeq(value, 1, 1))
    THEN <<SubSeq(value, 1, 1), DropFirst(value, 1)>>
    ELSE IF n >= 3 /\ IsOperator(SubSeq(value, n - 1, n))
    THEN <<ReverseOperator(SubSeq(value, n - 1, n)), DropLast(value, 2)>>
    ELSE IF n >= 2 /\ IsOperator(SubSeq(value, n, n))
    THEN <<ReverseOperator(SubSeq(value, n, n)), DropLast(value, 1)>>
    ELSE <<<<"=">>, value>>

\* int(x) for a float x: OverflowError for an infinity, ValueError for a NaN
IntOfFloat(x) ==
    IF "special" \in DOMAIN x
    THEN (IF x.special = "inf" THEN OverflowError ELSE ValueError)
    ELSE [ok |-> TRUE, val |-> FloatToInt(x)]

\* the length of the longest prefix of s made of characters of the set class
Span(s, class) ==
    IF \E k \in DOMAIN s : s[k] \notin class
    THEN (CHOOSE k \in DOMAIN s :
              s[k] \notin class /\ \A j \in 1..(k - 1) : s[j] \in class) - 1
    ELSE Len(s)

\* a size parser that looks the unit up as it is written
ParseSizeValueAsWritten(value_str) ==
    Bind(Strip(value_str), LAMBDA t :
    Bind(Span(t, Digits \cup {"."}), LAMBDA nl :
    Bind(LStrip(DropFirst(t, nl)), LAMBDA unit_str :
    IF ~(nl >= 1 /\ \A k \in DOMAIN unit_str : unit_str[k] \in Letters)
    THEN Bind(ParseFloat(value_str), LAMBDA x :
         IF x.ok THEN IntOfFloat(x.val) ELSE ValueError)
    ELSE Bind(ParseFloat(SubSeq(t, 1, nl)), LAMBDA number :
         Bind(Get(SIZE_UNITS, IF unit_str # <<>> THEN unit_str ELSE <<"b">>, -1),
              LAMBDA multiplier :
         IF ~number.ok THEN ValueError
         ELSE IF multiplier = -1 THEN ValueError
         ELSE [ok |-> TRUE, val |-> FloatToInt(Scale(number.val, multiplier))])))))

\* _parse_size_value(value_str): re.match(r'^([\d.]+)\s*([a-zA-Z]*)$', ...)
ParseSizeValue(value_str) ==
    Bind(Strip(value_str), LAMBDA t :
    Bind(Span(t, Digits \cup {"."}), LAMBDA nl :
    Bind(LStrip(DropFirst(t, nl)), LAMBDA unit_str :
    IF ~(nl >= 1 /\ \A k \in DOMAIN unit_str : unit_str[k] \in Letters)
    THEN Bind(ParseFloat(value_str), LAMBDA x :
         IF x.ok THEN IntOfFloat(x.val) ELSE ValueError)
    ELSE Bind(ParseFloat(SubSeq(t, 1, nl)), LAMBDA number :
         Bind(Get(SIZE_UNITS, IF unit_str # <<>> THEN Lower(unit_str) ELSE <<"b">>, -1),
              LAMBDA multiplier :
         IF ~number.ok THEN ValueError
         ELSE IF multiplier = -1 THEN ValueError
         ELSE [ok |-> TRUE, val |-> FloatToInt(Scale(number.val, multiplier))])))))

\* _parse_date_filter(field, value, is_negated).  fromtimestamp raises
\* OverflowError for a timestamp that does not fit the 64 bits of time_t, and
\* ValueError or OSError, which the code turns into ValueError, for one whose
\* year is after 9999, the last year of datetime.
ParseDateFilter(field, value, is_negated) ==
    Bind(ParseFlexibleOperator(value), LAMBDA p :
    Bind(IF AllDigits(p[2])
         THEN Bind(DecToBits(p[2]), LAMBDA timestamp :
              IF Len(timestamp) >= 64 THEN OverflowError
              ELSE IF Len(timestamp) > 38 THEN ValueError
              ELSE Bind(FromTimestamp(timestamp, utcoffset), LAMBDA parsed_date :
                   IF parsed_date.Y > 9999 THEN ValueError
                   ELSE [ok |-> TRUE, val |-> FormatDateTime(parsed_date)]))
         ELSE Bind(TryFormats(p[2], datetime_formats), LAMBDA with_time :
              IF with_time.ok THEN [ok |-> TRUE, val |-> FormatDateTime(with_time.dt)]
              ELSE Bind(TryFormats(p[2], date_formats), LAMBDA parsed_date :
                   IF parsed_date.ok
                   THEN [ok |-> TRUE, val |-> FormatDate(parsed_date.dt)]
                   ELSE ValueError)),
         LAMBDA iso :
    IF iso.ok
    THEN [ok |-> TRUE, node |-> FilterNode(field, StrVal(iso.val), p[1], is_negated)]
    ELSE iso))

\* the first exclusion prefix the token starts with: its index, or 0
ExclusionPrefix(token) ==
    IF \E k \in DOMAIN exclusion_prefixes : StartsWith(token, exclusion_prefixes[k])
    THEN CHOOSE k \in DOMAIN exclusion_prefixes :
             /\ StartsWith(token, exclusion_prefixes[k])
             /\ \A j \in 1..(k - 1) : ~StartsWith(token, exclusion_prefixes[j])
    ELSE 0

\* a match whose group 1 takes letters alone
ColonMatchLetters(core) ==
    Bind(Span(core, Letters), LAMBDA nl :
    IF nl >= 1 /\ Len(core) >= nl + 2 /\ core[nl + 1] = ":" THEN nl ELSE 0)

\* re.match(r'^([a-zA-Z_-]+):(.+)$', core): the length of group 1, or 0
ColonMatch(core) ==
    Bind(Span(core, Letters \cup {"_", "-"}), LAMBDA nl :
    IF nl >= 1 /\ Len(core) >= nl + 2 /\ core[nl + 1] = ":" THEN nl ELSE 0)

\* the value of a filter on field: the check a value of the field goes through
FieldValue(field, value, is_negated) ==
    Bind(ParseFlexibleOperator(value), LAMBDA p :
    IF field = <<"f", "i", "l", "e", "_", "s", "i", "z", "e">>
    THEN Bind(ParseSizeValue(p[2]), LAMBDA size_bytes :
         IF size_bytes.ok
         THEN [ok |-> TRUE, node |-> FilterNode(field, size_bytes.val, p[1], is_negated)]
         ELSE size_bytes)
    ELSE IF field \in {<<"d", "u", "r", "a", "t", "i", "o", "n">>,
                       <<"a", "s", "p", "e", "c", "t", "_", "r", "a", "t", "i", "o">>}
    THEN Bind(ParseFloat(p[2]), LAMBDA x :
         IF x.ok
         THEN [ok |-> TRUE, node |-> FilterNode(field, x.val, p[1], is_negated)]
         ELSE ValueError)
    ELSE IF field \in DATE_FIELDS THEN ParseDateFilter(field, value, is_negated)
    ELSE IF field \in NUMERIC_FIELDS
    THEN IF Contains(p[2], "*")
         THEN [ok |-> TRUE,
               node |-> FilterNode(field, StrVal(p[2]),
                                   <<"p", "a", "t", "t", "e", "r", "n">>, is_negated)]
         ELSE Bind(ParseInt(p[2]), LAMBDA num_value :
              IF num_value.ok
              THEN [ok |-> TRUE, node |-> FilterNode(field, num_value.val, p[1], is_negated)]
              ELSE ValueError)
    ELSE [ok |-> TRUE, node |-> FilterNode(field, StrVal(value), <<"=">>, is_negated)])

\* _parse_filter_token(token): the node, or the exception raised
ParseFilterToken(token) ==
    Bind(ExclusionPrefix(token), LAMBDA e :
    Bind(IF e # 0 THEN DropFirst(token, Len(exclusion_prefixes[e])) ELSE token,
         LAMBDA core :
    Bind(ColonMatch(core), LAMBDA nl :
    IF nl = 0
    THEN [ok |-> TRUE, node |-> FilterNode(<<"t", "a", "g">>, StrVal(core), <<"=">>, e # 0)]
    ELSE Bind(Lower(SubSeq(core, 1, nl)), LAMBDA name :
         Bind(Get(FIELD_ALIASES, name, name), LAMBDA field :
         Bind(DropFirst(core, nl + 1), LAMBDA value :
         FieldValue(field,
                    IF field = <<"f", "i", "l", "e", "_", "t", "y", "p", "e">>
                       /\ ~StartsWith(value, <<".">>) /\ ~StartsWith(value, <<"(">>)
                    THEN <<".">> \o value ELSE value,
                    e # 0)))))))

----------------------------------------------------------------------------
(* Parser: tokens -> AST                                                   *)

\* a collapse that wraps a single child in an AND node as well
CollapseWrapping(and_group, i) ==
    [ok |-> TRUE, i |-> i, node |-> GroupNode("AND", and_group)]

\* the end of _parse_tokens: the collapse of the AND group
Collapse(and_group, i) ==
    [ok |-> TRUE, i |-> i,
     node |-> IF Len(and_group) = 0 THEN GroupNode("AND", <<>>)
              ELSE IF Len(and_group) = 1 THEN and_group[1]
              ELSE GroupNode("AND", and_group)]

RECURSIVE ParseTokens(_, _, _)
RECURSIVE ParseLoop(_, _, _, _)
RECURSIVE OrLoop(_, _, _, _)

\* the inner while loop of _parse_tokens, which gathers an OR group from i on:
\* the group and the index it stops at, or the exception of a term
OrLoop(tokens, i, depth, or_group) ==
    IF i >= Len(tokens) THEN [ok |-> TRUE, i |-> i, or_group |-> or_group]
    ELSE IF tokens[i + 1] = <<"|">> THEN OrLoop(tokens, i + 1, depth, or_group)
    ELSE IF tokens[i + 1] = <<")">> /\ depth > 0
    THEN [ok |-> TRUE, i |-> i, or_group |-> or_group]
    ELSE IF tokens[i + 1] = <<"(">>
    THEN Bind(ParseTokens(tokens, i + 1, depth + 1), LAMBDA sub :
         IF sub.ok THEN OrLoop(tokens, sub.i, depth, Append(or_group, sub.node))
         ELSE sub)
    ELSE Bind(ParseFilterToken(tokens[i + 1]), LAMBDA next :
         IF ~next.ok THEN next
         ELSE IF i + 1 < Len(tokens) /\ tokens[i + 2] = <<"|">>
         THEN OrLoop(tokens, i + 1, depth, Append(or_group, next.node))
         ELSE [ok |-> TRUE, i |-> i + 1, or_group |-> Append(or_group, next.node)])

\* the outer while loop of _parse_tokens from index i on
ParseLoop(tokens, i, depth, and_group) ==
    IF i >= Len(tokens) THEN Collapse(and_group, i)
    ELSE IF tokens[i + 1] = <<"(">>
    THEN Bind(ParseTokens(tokens, i + 1, depth + 1), LAMBDA sub :
         IF sub.ok THEN ParseLoop(tokens, sub.i, depth, Append(and_group, sub.node))
         ELSE sub)
    ELSE IF tokens[i + 1] = <<")">> THEN Collapse(and_group, i + 1)
    ELSE IF tokens[i + 1] = <<"|">> THEN ParseLoop(tokens, i + 1, depth, and_group)
    ELSE Bind(ParseFilterToken(tokens[i + 1]), LAMBDA filter_node :
         IF ~filter_node.ok THEN filter_node
         ELSE IF i + 1 < Len(tokens) /\ tokens[i + 2] = <<"|">>
         THEN Bind(OrLoop(tokens, i + 1, depth, <<filter_node.node>>), LAMBDA g :
              IF g.ok
              THEN ParseLoop(tokens, g.i, depth,
                             Append(and_group, GroupNode("OR", g.or_group)))
              ELSE g)
         ELSE ParseLoop(tokens, i + 1, depth, Append(and_group, filter_node.node)))

\* _parse_tokens(tokens, start_idx, depth): the node and the index after it
ParseTokens(tokens, start_idx, depth) == ParseLoop(tokens, start_idx, depth, <<>>)

\* _parse_query(query), from the tokens on
ParseQuery(tokens) == ParseTokens(tokens, 0, 0)

----------------------------------------------------------------------------
(* SQL emitter                                                             *)

\* the text of an interpolated str: the column or operator it names as one
\* piece, and its characters one by one when it names none
Names == {
    <<<<"t", "a", "g", "s">>, "tags">>, <<<<"s", "c", "o", "r", "e">>, "score">>, <<<<"w", "i", "d", "t", "h">>, "width">>,
    <<<<"h", "e", "i", "g", "h", "t">>, "height">>, <<<<"p", "o", "s", "t", "_", "i", "d">>, "post_id">>,
    <<<<"t", "a", "g", "_", "c", "o", "u", "n", "t">>, "tag_count">>, <<<<"f", "i", "l", "e", "_", "s", "i", "z", "e">>, "file_size">>,
    <<<<"d", "u", "r", "a", "t", "i", "o", "n">>, "duration">>, <<<<"m", "a", "t", "c", "h", "i", "n", "g", "_", "t", "a", "g", "s">>, "matching_tags">>,
    <<<<"a", "s", "p", "e", "c", "t", "_", "r", "a", "t", "i", "o">>, "aspect_ratio">>, <<<<"o", "w", "n", "e", "r">>, "owner">>,
    <<<<"t", "i", "t", "l", "e">>, "title">>, <<<<"r", "a", "t", "i", "n", "g">>, "rating">>, <<<<"f", "i", "l", "e", "_", "t", "y", "p", "e">>, "file_type">>,
    <<<<"c", "r", "e", "a", "t", "e", "d", "_", "a", "t">>, "created_at">>, <<<<"d", "o", "w", "n", "l", "o", "a", "d", "e", "d", "_", "a", "t">>, "downloaded_at">>,
    <<<<"=">>, "=">>, <<<<"!", "=">>, "!=">>, <<<<"<">>, "<">>, <<<<"<", "=">>, "<=">>,
    <<<<">">>, ">">>, <<<<">", "=">>, ">=">>}

Text(s) == IF \E e \in Names : e[1] = s THEN <<Get(Names, s, "")>> ELSE s

\* op_inverse.get(operator, '!=')
op_inverse == {
    <<<<"=">>, <<"!", "=">>>>, <<<<">">>, <<"<", "=">>>>, <<<<">", "=">>, <<"<">>>>,
    <<<<"<">>, <<">", "=">>>>, <<<<"<", "=">>, <<">">>>>}

\* a negated comparison rendered with the mirrored operator
SqlOpMirrored(operator, is_negated) ==
    IF is_negated THEN ReverseOperator(operator) ELSE operator

\* the operator a comparison is rendered with
SqlOp(operator, is_negated) ==
    IF is_negated THEN Get(op_inverse, operator, <<"!", "=">>) ELSE operator

\* CAST(<expr> AS TEXT) LIKE ? / NOT LIKE ? with the pattern of a value
CastLike(expr, value, is_negated) ==
    [sql |-> <<"CAST(">> \o expr \o <<" AS TEXT)">>
             \o (IF is_negated THEN <<" NOT LIKE ", "?">> ELSE <<" LIKE ", "?">>),
     params |-> <<StrVal(ReplaceChar(value.v, "*", "%"))>>]

TagCountExpr == <<"(length(tags) - length(replace(tags, ',', '')) + 1)">>

\* a tag search that writes the pattern into the sql text
TagSearchInline(value, is_negated) ==
    [sql |-> (IF is_negated THEN <<"tags", " NOT LIKE ">> ELSE <<"tags", " LIKE ">>)
             \o <<"'", "%", "\"">> \o ReplaceChar(value.v, "*", "%") \o <<"\"", "%", "'">>,
     params |-> <<>>]

\* the tag search of _filter_to_sql: tags LIKE ? / NOT LIKE ? with the quoted
\* pattern of the tag
TagSearch(value, is_negated) ==
    [sql |-> IF is_negated THEN <<"tags", " NOT LIKE ", "?">>
             ELSE <<"tags", " LIKE ", "?">>,
     params |-> <<StrVal(<<"%", "\"">> \o ReplaceChar(value.v, "*", "%")
                         \o <<"\"", "%">>)>>]

\* _filter_to_sql(node)
FilterToSql(node) ==
    LET key == node.key.v
        value == node.value
        operator == node.operator.v
        is_negated == node.is_negated
        sql_op == Text(SqlOp(operator, is_negated))
    IN IF key = <<"t", "a", "g">> THEN TagSearch(value, is_negated)
       ELSE IF key = <<"t", "a", "g", "_", "c", "o", "u", "n", "t">>
       THEN IF operator = <<"p", "a", "t", "t", "e", "r", "n">>
            THEN CastLike(TagCountExpr, value, is_negated)
            ELSE [sql |-> TagCountExpr \o <<" ">> \o sql_op \o <<" ", "?">>,
                  params |-> <<value>>]
       ELSE IF key = <<"a", "s", "p", "e", "c", "t", "_", "r", "a", "t", "i", "o">>
       THEN [sql |-> <<"(CAST(width AS REAL) / CAST(height AS REAL))", " ">>
                     \o sql_op \o <<" ", "?">>,
             params |-> <<value>>]
       ELSE IF key = <<"m", "a", "t", "c", "h", "i", "n", "g", "_", "t", "a", "g", "s">> THEN [sql |-> <<"1=1">>, params |-> <<>>]
       ELSE IF key \in DATE_FIELDS
       THEN [sql |-> <<"DATE(">> \o Text(key) \o <<")", " ">> \o sql_op
                     \o <<" ", "DATE(", "?", ")">>,
             params |-> <<value>>]
       ELSE IF key \in {<<"f", "i", "l", "e", "_", "s", "i", "z", "e">>, <<"d", "u", "r", "a", "t", "i", "o", "n">>}
       THEN IF operator = <<"p", "a", "t", "t", "e", "r", "n">> THEN CastLike(Text(key), value, is_negated)
            ELSE IF key = <<"d", "u", "r", "a", "t", "i", "o", "n">>
            THEN [sql |-> <<"(">> \o Text(key) \o <<" IS NOT NULL AND ">> \o Text(key)
                          \o <<" ">> \o sql_op \o <<" ", "?", ")">>,
                  params |-> <<value>>]
            ELSE [sql |-> Text(key) \o <<" ">> \o sql_op \o <<" ", "?">>,
                  params |-> <<value>>]
       ELSE IF key \in NUMERIC_FIELDS
       THEN IF operator = <<"p", "a", "t", "t", "e", "r", "n">> THEN CastLike(Text(key), value, is_negated)
            ELSE [sql |-> Text(key) \o <<" ">> \o sql_op \o <<" ", "?">>,
                  params |-> <<value>>]
       ELSE IF key \in TEXT_FIELDS
       THEN IF Contains(value.v, "*")
            THEN [sql |-> Text(key)
                          \o (IF is_negated THEN <<" NOT LIKE ", "?">> ELSE <<" LIKE ", "?">>),
                  params |-> <<StrVal(ReplaceChar(value.v, "*", "%"))>>]
            ELSE [sql |-> <<"LOWER(">> \o Text(key)
                          \o (IF is_negated THEN <<")", " != ", "LOWER(", "?", ")">>
                              ELSE <<")", " = ", "LOWER(", "?", ")">>),
                  params |-> <<value>>]
       ELSE [sql |-> <<"1=1">>, params |-> <<>>]

RECURSIVE AstToSql(_)
RECURSIVE JoinClauses(_, _)

\* a loop that puts the parameters of each child before those collected so far
JoinClausesPrepending(children, connective) ==
    Bind(AstToSql(children[1]), LAMBDA first :
    IF Len(children) = 1
    THEN [sql |-> <<"(">> \o first.sql \o <<")">>, params |-> first.params]
    ELSE Bind(JoinClauses(Tail(children), connective), LAMBDA rest :
         [sql |-> <<"(">> \o first.sql \o <<")", connective>> \o rest.sql,
          params |-> rest.params \o first.params]))

\* the loop of _and_to_sql and _or_to_sql: the clauses "(sql)" of the children
\* joined by the connective, and their parameters in the same order
JoinClauses(children, connective) ==
    Bind(AstToSql(children[1]), LAMBDA first :
    IF Len(children) = 1
    THEN [sql |-> <<"(">> \o first.sql \o <<")">>, params |-> first.params]
    ELSE Bind(JoinClauses(Tail(children), connective), LAMBDA rest :
         [sql |-> <<"(">> \o first.sql \o <<")", connective>> \o rest.sql,
          params |-> first.params \o rest.params]))

\* _and_to_sql(node)
AndToSql(node) ==
    IF node.children = <<>> THEN [sql |-> <<"1=1">>, params |-> <<>>]
    ELSE JoinClauses(node.children, " AND ")

\* _or_to_sql(node)
OrToSql(node) ==
    IF node.children = <<>> THEN [sql |-> <<"1=1">>, params |-> <<>>]
    ELSE JoinClauses(node.children, " OR ")

\* _ast_to_sql(node)
AstToSql(node) ==
    IF node.type = "FILTER" THEN FilterToSql(node)
    ELSE IF node.type = "AND" THEN AndToSql(node)
    ELSE IF node.type = "OR" THEN OrToSql(node)
    ELSE [sql |-> <<"1=1">>, params |-> <<>>]

----------------------------------------------------------------------------
(* translate                                                               *)

\* the truth value of the status argument: None and '' are falsy
Truthy(status) == status.t = "str" /\ status.v # <<>>

\* what translate hands back: a returned tuple, or an exception that escapes
Returned(sql, params, metadata) ==
    [raised |-> FALSE, sql |-> sql, params |-> params, metadata |-> metadata]

Raised(exc) == [raised |-> TRUE, exc |-> exc]

\* the return of the empty-query branch and of the except branch
Fallback(status) ==
    IF Truthy(status) THEN Returned(<<"status", " = ", "?">>, <<status>>, QueryMetadata)
    ELSE Returned(<<"1=1">>, <<>>, QueryMetadata)

\* the exception classes the clause "except Exception" catches
Caught == {"ValueError", "OverflowError"}

\* an except clause that names ValueError alone
ExceptValueError(exc, status) ==
    IF exc = "ValueError" THEN Fallback(status) ELSE Raised(exc)

\* the except clause of translate for an exception raised in the try block
Except(exc, status) == IF exc \in Caught THEN Fallback(status) ELSE Raised(exc)

\* not query or not query.strip()
IsBlank(query) == query = <<>> \/ Strip(query) = <<>>

\* the try block of translate after tokenizing: parse, emit, add the status
TranslateTokens(tokens, metadata, status) ==
    Bind(ParseQuery(tokens), LAMBDA parsed :
    IF ~parsed.ok THEN Except(parsed.exc, status)
    ELSE Bind(AstToSql(parsed.node), LAMBDA emitted :
         IF Truthy(status)
         THEN Returned(<<"(">> \o emitted.sql \o <<")", " AND ", "status", " = ", "?">>,
                       Append(emitted.params, status), metadata)
         ELSE Returned(emitted.sql, emitted.params, metadata)))

\* translate(query, status) as a function
Translate(query, status) ==
    IF IsBlank(query) THEN Fallback(status)
    ELSE Bind(ExtractMetadata(query), LAMBDA m :
         TranslateTokens(Tokenize(m.clean_query), m.metadata, status))

----------------------------------------------------------------------------
(* The post cache: the rows cache_post writes and the WHERE fragments the  *)
(* repository hands to SQLite                                              *)

\* the characters outside ASCII that occur in the tags, with the four hex
\* digits of their code points
NonAscii == {<<"é", <<"0", "0", "e", "9">>>>}

\* json.dumps of one character of a str (ensure_ascii is left at True)
JsonChar(c) ==
    IF c = "\"" THEN <<"\\", "\"">>
    ELSE IF c = "\\" THEN <<"\\", "\\">>
    ELSE IF c = "\n" THEN <<"\\", "n">>
    ELSE IF c = "\t" THEN <<"\\", "t">>
    ELSE IF \E e \in NonAscii : e[1] = c THEN <<"\\", "u">> \o Get(NonAscii, c, <<>>)
    ELSE <<c>>

RECURSIVE JsonString(_)
\* json.dumps of a str without its quotes
JsonString(s) == IF s = <<>> THEN <<>> ELSE JsonChar(s[1]) \o JsonString(Tail(s))

RECURSIVE JsonItems(_)
\* the items of a list of str, separated by ', '
JsonItems(tags) ==
    IF tags = <<>> THEN <<>>
    ELSE <<"\"">> \o JsonString(tags[1]) \o <<"\"">>
         \o (IF Len(tags) = 1 THEN <<>> ELSE <<",", " ">> \o JsonItems(Tail(tags)))

\* json.dumps(tags) for a list of str
JsonDumps(tags) == <<"[">> \o JsonItems(tags) \o <<"]">>

RECURSIVE JsonStringAt(_, _, _)
\* the str read by json.loads after an opening quote, with the place after
\* its closing quote
JsonStringAt(text, at, s) ==
    IF text[at] = "\"" THEN [s |-> s, at |-> at + 1]
    ELSE IF text[at] # "\\" THEN JsonStringAt(text, at + 1, Append(s, text[at]))
    ELSE IF text[at + 1] = "u"
    THEN JsonStringAt(text, at + 6,
             Append(s, (CHOOSE e \in NonAscii : e[2] = SubSeq(text, at + 2, at + 5))[1]))
    ELSE JsonStringAt(text, at + 2,
             Append(s, IF text[at + 1] = "n" THEN "\n"
                       ELSE IF text[at + 1] = "t" THEN "\t" ELSE text[at + 1]))

RECURSIVE JsonItemsAt(_, _, _)
\* the items of a list of str read by json.loads
JsonItemsAt(text, at, items) ==
    IF text[at] = "]" THEN items
    ELSE IF text[at] = "\""
    THEN Bind(JsonStringAt(text, at + 1, <<>>), LAMBDA r :
              JsonItemsAt(text, r.at, Append(items, r.s)))
    ELSE JsonItemsAt(text, at + 1, items)

\* json.loads(text) for the JSON text of a list of str
JsonLoads(text) == JsonItemsAt(text, 2, <<>>)

\* post_data.get(key, default)
DictGet(post_data, key, default) ==
    IF key \in DOMAIN post_data THEN post_data[key] ELSE default

\* the row cache_post writes for post_data; of its columns the model keeps
\* post_id, status, tags, title, score, width, height, created_at, duration
\* and file_size.  A value is stored as cache_post binds it: a str in a TEXT
\* column, an int in an INTEGER column, a float in the REAL column duration.
Row(post_data) ==
    [post_id |-> post_data.id, status |-> post_data.status,
     tags |-> JsonDumps(post_data.tags),
     title |-> DictGet(post_data, "title", StrVal(<<>>)),
     score |-> DictGet(post_data, "score", PyInt(0)),
     width |-> DictGet(post_data, "width", PyInt(0)),
     height |-> DictGet(post_data, "height", PyInt(0)),
     created_at |-> DictGet(post_data, "created_at", StrVal(<<>>)),
     duration |-> DictGet(post_data, "duration", NoneVal),
     file_size |-> DictGet(post_data, "file_size", NoneVal)]

RECURSIVE Like(_, _)
\* text LIKE pattern in SQLite: '%' stands for any run of characters, '_' for
\* any one character, ASCII letters match without regard to case, and there
\* is no escape character
Like(pattern, text) ==
    IF pattern = <<>> THEN text = <<>>
    ELSE IF pattern[1] = "%"
    THEN Like(Tail(pattern), text) \/ (text # <<>> /\ Like(pattern, Tail(text)))
    ELSE /\ text # <<>>
         /\ pattern[1] = "_" \/ LowerChar(pattern[1]) = LowerChar(text[1])
         /\ Like(Tail(pattern), Tail(text))

\* the value SQLite reads in a column of the row; NoneVal is NULL
Column(row, name) ==
    IF name = "post_id" THEN PyInt(row.post_id)
    ELSE IF name = "tags" THEN StrVal(row.tags)
    ELSE row[name]

\* the value SQLite takes for a parameter: sqlite3 binds the float nan as NULL
Bound(param) ==
    IF param.t = "float" /\ "special" \in DOMAIN param /\ param.special = "nan"
    THEN NoneVal ELSE param

IsInf(v) == v.t = "float" /\ "special" \in DOMAIN v

\* x < y for finite numbers, ints or floats: the magnitudes are compared on
\* the lower of the two binary exponents
NumLess(x, y) ==
    LET man(v) == IF v.t = "int" THEN v.mag ELSE v.man
        exp(v) == IF v.t = "int" \/ v.man = <<>> THEN 0 ELSE v.exp
        low == Min(exp(x), exp(y))
        less(a, b) == MagLess(Shl(man(a), exp(a) - low), Shl(man(b), exp(b) - low))
    IN IF x.neg # y.neg THEN x.neg
       ELSE IF x.neg THEN less(y, x) ELSE less(x, y)

\* the characters of a date text in their byte order
DateChars == <<" ", "-", "0", "1", "2", "3", "4", "5", "6", "7", "8", "9", ":">>

RECURSIVE TextLess(_, _)
\* a < b for texts of date characters, byte by byte
TextLess(a, b) ==
    IF b = <<>> THEN FALSE
    ELSE IF a = <<>> THEN TRUE
    ELSE IF a[1] = b[1] THEN TextLess(Tail(a), Tail(b))
    ELSE \E j, k \in DOMAIN DateChars : j < k /\ DateChars[j] = a[1] /\ DateChars[k] = b[1]

\* a < b in SQLite for values that are not NULL: a number is less than any
\* text
SqlLess(a, b) ==
    IF a.t = "str" THEN b.t = "str" /\ TextLess(a.v, b.v)
    ELSE IF b.t = "str" THEN TRUE
    ELSE IF IsInf(a) THEN a.neg /\ ~(IsInf(b) /\ b.neg)
    ELSE IF IsInf(b) THEN ~b.neg
    ELSE NumLess(a, b)

\* a = b in SQLite for values that are not NULL: a number and a text differ
SqlEqual(a, b) ==
    IF a.t = "str" \/ b.t = "str" THEN a = b
    ELSE ~SqlLess(a, b) /\ ~SqlLess(b, a)

\* DATE(v) for the texts YYYY-MM-DD and YYYY-MM-DD HH:MM:SS: the day; NULL for
\* NULL and for a text that is no date, such as ''
DateOf(v) ==
    IF v.t # "str" THEN NoneVal
    ELSE Bind(v.v, LAMBDA s :
         IF /\ Len(s) \in {10, 19}
            /\ \A k \in {1, 2, 3, 4, 6, 7, 9, 10} : s[k] \in Digits
            /\ s[5] = "-" /\ s[8] = "-"
            /\ 10 * DigitVal(s[6]) + DigitVal(s[7]) \in 1..12
            /\ 10 * DigitVal(s[9]) + DigitVal(s[10]) \in 1..31
            /\ Len(s) = 19 =>
                   /\ s[11] = " " /\ s[14] = ":" /\ s[17] = ":"
                   /\ \A k \in {12, 13, 15, 16, 18, 19} : s[k] \in Digits
         THEN StrVal(SubSeq(s, 1, 10)) ELSE NoneVal)

\* CAST(v AS TEXT) for an integer or a text; NULL for NULL
TextOf(v) ==
    IF v.t = "int"
    THEN StrVal((IF v.neg THEN <<"-">> ELSE <<>>) \o NatToDec(ToNat(v.mag)))
    ELSE v

\* LOWER(v) for a text; NULL for NULL
LowerOf(v) == IF v.t = "str" THEN StrVal(Lower(v.v)) ELSE v

\* (length(tags) - length(replace(tags, ',', '')) + 1): the commas of the
\* tags text and one
TagCount(row) == PyInt(Cardinality({k \in DOMAIN row.tags : row.tags[k] = ","}) + 1)

\* CAST(width AS REAL) / CAST(height AS REAL) for ints: NULL when one of
\* them is NULL or height is 0, else the double nearest to the quotient
AspectRatio(width, height) ==
    IF width = NoneVal \/ height = NoneVal \/ height.mag = <<>> THEN NoneVal
    ELSE Bind(MantBits + 2 + Len(height.mag), LAMBDA K :
         Bind(DivSmall(BitsToLimbs(Shl(width.mag, K)), ToNat(height.mag)), LAMBDA d :
         RoundBits(width.neg # height.neg, LimbsToBits(d.q), -K, d.r # 0)))

\* an operand of a comparison, read from the piece at: a column, the tag
\* count, the aspect ratio or the next parameter, inside DATE(), LOWER() or
\* CAST( AS TEXT) or bare; the answer carries the piece that comes next and
\* the number of parameters taken
Operand(sql, params, row, at, par) ==
    LET plain(p) ==
            IF sql[p] = "?" THEN [val |-> Bound(params[par]), n |-> 1]
            ELSE IF sql[p] = TagCountExpr[1] THEN [val |-> TagCount(row), n |-> 0]
            ELSE IF sql[p] = "(CAST(width AS REAL) / CAST(height AS REAL))"
            THEN [val |-> AspectRatio(row.width, row.height), n |-> 0]
            ELSE [val |-> Column(row, sql[p]), n |-> 0]
    IN IF sql[at] = "DATE("
       THEN [val |-> DateOf(plain(at + 1).val), at |-> at + 3, n |-> plain(at + 1).n]
       ELSE IF sql[at] = "LOWER("
       THEN [val |-> LowerOf(plain(at + 1).val), at |-> at + 3, n |-> plain(at + 1).n]
       ELSE IF sql[at] = "CAST("
       THEN [val |-> TextOf(plain(at + 1).val), at |-> at + 3, n |-> plain(at + 1).n]
       ELSE [val |-> plain(at).val, at |-> at + 1, n |-> plain(at).n]

\* the operator read from the piece at: one piece such as " LIKE " or " = ",
\* or an operator between two blanks
OperatorAtPiece(sql, at) ==
    IF sql[at] = " " THEN [op |-> sql[at + 1], at |-> at + 3]
    ELSE [op |-> sql[at], at |-> at + 1]

\* the comparison read from the piece at: its operands and its operator
ComparisonAt(sql, params, row, at, par) ==
    Bind(Operand(sql, params, row, at, par), LAMBDA l :
    Bind(OperatorAtPiece(sql, l.at), LAMBDA o :
    Bind(Operand(sql, params, row, o.at, par + l.n), LAMBDA r :
    [left |-> l.val, op |-> o.op, right |-> r.val, at |-> r.at, par |-> par + l.n + r.n])))

\* one comparison of a WHERE fragment is true: a comparison with NULL is
\* NULL, and so is not true
Compare(left, operator, right) ==
    /\ left # NoneVal
    /\ right # NoneVal
    /\ IF operator = " LIKE " THEN Like(right.v, left.v)
       ELSE IF operator = " NOT LIKE " THEN ~Like(right.v, left.v)
       ELSE IF operator = "<" THEN SqlLess(left, right)
       ELSE IF operator = ">" THEN SqlLess(right, left)
       ELSE IF operator = "<=" THEN ~SqlLess(right, left)
       ELSE IF operator = ">=" THEN ~SqlLess(left, right)
       ELSE IF operator \in {"!=", " != "} THEN ~SqlEqual(left, right)
       ELSE SqlEqual(left, right)

RECURSIVE EvalOr(_, _, _, _, _)
RECURSIVE EvalAtom(_, _, _, _, _)
\* a parenthesised expression, 1=1, a column IS NOT NULL AND an atom, or a
\* comparison, read from the piece at; the answer carries the piece and the
\* parameter that come next
EvalAtom(sql, params, row, at, par) ==
    IF sql[at] = "(" /\ sql[at + 2] # " IS NOT NULL AND "
    THEN Bind(EvalOr(sql, params, row, at + 1, par), LAMBDA e :
         [val |-> e.val, at |-> e.at + 1, par |-> e.par])
    ELSE IF sql[at] = "("
    THEN Bind(EvalAtom(sql, params, row, at + 3, par), LAMBDA a :
         [val |-> Column(row, sql[at + 1]) # NoneVal /\ a.val,
          at |-> a.at + 1, par |-> a.par])
    ELSE IF sql[at] = "1=1" THEN [val |-> TRUE, at |-> at + 1, par |-> par]
    ELSE Bind(ComparisonAt(sql, params, row, at, par), LAMBDA c :
         [val |-> Compare(c.left, c.op, c.right), at |-> c.at, par |-> c.par])

RECURSIVE EvalAnd(_, _, _, _, _)
\* atoms joined by AND
EvalAnd(sql, params, row, at, par) ==
    Bind(EvalAtom(sql, params, row, at, par), LAMBDA a :
    IF a.at <= Len(sql) /\ sql[a.at] = " AND "
    THEN Bind(EvalAnd(sql, params, row, a.at + 1, a.par), LAMBDA b :
         [val |-> a.val /\ b.val, at |-> b.at, par |-> b.par])
    ELSE a)

\* conjunctions joined by OR
EvalOr(sql, params, row, at, par) ==
    Bind(EvalAnd(sql, params, row, at, par), LAMBDA a :
    IF a.at <= Len(sql) /\ sql[a.at] = " OR "
    THEN Bind(EvalOr(sql, params, row, a.at + 1, a.par), LAMBDA b :
         [val |-> a.val \/ b.val, at |-> b.at, par |-> b.par])
    ELSE a)

\* the row satisfies WHERE sql with the parameters bound in order
Holds(sql, params, row) == EvalOr(sql, params, row, 1, 1).val

\* the rows of SELECT * FROM post_cache WHERE sql
Select(rows, sql, params) == {row \in rows : Holds(sql, params, row)}

RECURSIVE OrderBy(_, _)
\* ORDER BY post_id ASC or DESC
OrderBy(rows, descending) ==
    IF rows = {} THEN <<>>
    ELSE Bind(CHOOSE r \in rows : \A o \in rows :
                  IF descending THEN o.post_id <= r.post_id ELSE o.post_id >= r.post_id,
              LAMBDA first : <<first>> \o OrderBy(rows \ {first}, descending))

\* LIMIT limit OFFSET offset
Page(rows, limit, offset) == SubSeq(rows, offset + 1, Min(Len(rows), offset + limit))

\* the dict get_cached_posts builds of a row, of which the model keeps the
\* id, the status and the tags
Post(row) ==
    [id |-> row.post_id, status |-> row.status,
     tags |-> IF row.tags = <<>> THEN <<>> ELSE JsonLoads(row.tags)]

\* what SELECT ... WHERE sql ORDER BY post_id ... LIMIT ? OFFSET ? fetches,
\* as dicts
Fetch(rows, sql, params, order, limit, offset) ==
    Bind(Page(OrderBy(Select(rows, sql, params), Upper(order) = <<"D", "E", "S", "C">>),
              limit, offset),
         LAMBDA fetched : [k \in DOMAIN fetched |-> Post(fetched[k])])

\* the tuple translate returns
ReturnedTuple(r) == <<r.sql, r.params, r.metadata>>

\* the assignment of a tuple to n names
Unpack(tuple, n) ==
    IF Len(tuple) = n THEN [ok |-> TRUE, vals |-> tuple]
    ELSE [ok |-> FALSE, exc |-> "ValueError"]

----------------------------------------------------------------------------
(* One call of translate as a state machine: the call, the passes of the   *)
(* tokenizer loop, the return.                                             *)

VARIABLES
    query,           \* the query argument
    status,          \* the status argument
    pc,              \* "call", "tokenize", "done"
    clean_query,     \* the query without its metadata tokens
    metadata,        \* the QueryMetadata of the call
    tokens,          \* the locals of _tokenize
    buffer,
    paren_depth,
    in_field_value,
    i,
    ast,             \* the AST of _parse_query, None before and on failure
    result,          \* what translate handed back
    cache,           \* the rows of the table post_cache
    posts,           \* the last call of get_cached_posts: arguments and answer
    count,           \* the answer of the last call of get_cache_count
    threads,         \* the calls of translate that threads make on the shared
                     \* translator: query, status, pc and result of each
    frames,          \* the locals of those calls
    served,          \* the last call of get_posts: arguments and answer
    query_translator,\* the module global _query_translator: None or an instance
    instances,       \* the number of QueryTranslator instances constructed
    callers          \* the calls of get_query_translator that threads make:
                     \* pc and the instance held or returned by each

\* the state of the call of translate
call == <<utcoffset, query, status, pc, clean_query, metadata, tokens, buffer,
          paren_depth, in_field_value, i, ast, result>>

\* the state of the repository
repository == <<cache, posts, count>>

\* the state of the threads
threaded == <<threads, frames>>

\* the n-th QueryTranslator constructed
Instance(n) == [t |-> "QueryTranslator", n |-> n]

\* the state of the accessor get_query_translator
singleton == <<query_translator, instances, callers>>

vars == <<call, repository, threaded, served, singleton>>

\* the locals of _tokenize as a record
Locals == [tokens |-> tokens, buffer |-> buffer, paren_depth |-> paren_depth,
           in_field_value |-> in_field_value, i |-> i]

SetLocals(st) ==
    /\ tokens' = st.tokens
    /\ buffer' = st.buffer
    /\ paren_depth' = st.paren_depth
    /\ in_field_value' = st.in_field_value
    /\ i' = st.i

\* the state before translate(q, s) is called on one of the queries, with
\* one of the statuses, in one of the time zones, on the translator that
\* get_query_translator has constructed, and no other thread at work
Start(queries, statuses, zones) ==
    /\ threads = <<>>
    /\ frames = <<>>
    /\ query \in queries
    /\ status \in statuses
    /\ utcoffset \in zones
    /\ pc = "call"
    /\ clean_query = <<>>
    /\ metadata = QueryMetadata
    /\ tokens = <<>> /\ buffer = <<>> /\ paren_depth = 0
    /\ in_field_value = FALSE /\ i = 0
    /\ ast = NoneVal
    /\ result = NoneVal
    /\ cache = {}
    /\ posts = NoneVal
    /\ count = NoneVal
    /\ served = NoneVal
    /\ query_translator = Instance(1) /\ instances = 1 /\ callers = <<>>

\* translate is entered: the blank check, then _extract_metadata
Call ==
    /\ pc = "call"
    /\ IF IsBlank(query)
       THEN /\ result' = Fallback(status)
            /\ pc' = "done"
            /\ UNCHANGED <<clean_query, metadata>>
       ELSE LET m == ExtractMetadata(query)
            IN /\ clean_query' = m.clean_query
               /\ metadata' = m.metadata
               /\ pc' = "tokenize"
               /\ UNCHANGED result
    /\ SetLocals(TokenizeStart)
    /\ UNCHANGED <<utcoffset, query, status, ast, repository, threaded, served, singleton>>

\* one pass through the loop of _tokenize
Step ==
    /\ pc = "tokenize"
    /\ i < Len(clean_query)
    /\ SetLocals(TokenizeStep(clean_query, Locals))
    /\ UNCHANGED <<utcoffset, query, status, pc, clean_query, metadata, ast, result,
                   repository, threaded, served, singleton>>

\* the loop of _tokenize is over: the last flush, then parsing, emission and the
\* return of translate
Return ==
    /\ pc = "tokenize"
    /\ i >= Len(clean_query)
    /\ tokens' = TokenizeEnd(Locals)
    /\ buffer' = <<>>
    /\ ast' = Bind(ParseQuery(tokens'), LAMBDA parsed :
                   IF parsed.ok THEN parsed.node ELSE NoneVal)
    /\ result' = TranslateTokens(tokens', metadata, status)
    /\ pc' = "done"
    /\ UNCHANGED <<utcoffset, query, status, clean_query, metadata, paren_depth,
                   in_field_value, i, repository, threaded, served,
                   singleton>>

Next == Call \/ Step \/ Return

----------------------------------------------------------------------------
(* The repository: cache_post, get_cached_posts and get_cache_count, with  *)
(* the query and the status of the call as search_query and status         *)

\* the status arguments
None == NoneVal

saved == StrVal(<<"s", "a", "v", "e", "d">>)

pending == StrVal(<<"p", "e", "n", "d", "i", "n", "g">>)

\* the bound of the model on the post ids
MaxRows == 2

\* the tag lists of the posts
TagLists == {<<<<"r", "e", "d">>>>, <<<<"a", "x", "b">>, <<"r", "e", "d">>>>, <<<<"a", "_", "b">>>>, <<<<"é">>>>}

\* the posts handed to cache_post
PostData ==
    [id : 1 .. MaxRows, status : {saved}, tags : TagLists]
        \cup [id : 1 .. MaxRows, status : {pending}, tags : {<<<<"r", "e", "d">>>>}]

\* the arguments limit, offset and order of get_cached_posts
Paging == {
    [limit |-> 1000, offset |-> 0, order |-> <<"D", "E", "S", "C">>],
    [limit |-> 1, offset |-> 0, order |-> <<"a", "s", "c">>],
    [limit |-> 1, offset |-> 1, order |-> <<"D", "E", "S", "C">>]}

\* cache_post(post_data): INSERT OR REPLACE of the row of the post, on a
\* table post_cache that has the columns the statement names
CachePost ==
    /\ \E post_data \in PostData :
           cache' = {row \in cache : row.post_id # post_data.id} \cup {Row(post_data)}
    /\ UNCHANGED <<call, posts, count, threaded, served, singleton>>

\* the WHERE fragment and the parameters the repository takes: those of
\* translate unpacked into two names for a search query, its own otherwise;
\* an exception is caught by the except clause of the caller
Where ==
    IF IsBlank(query)
    THEN [ok |-> TRUE,
          vals |-> IF Truthy(status) THEN <<<<"status", " = ", "?">>, <<status>>>>
                   ELSE <<<<"1=1">>, <<>>>>]
    ELSE IF result.raised THEN [ok |-> FALSE, exc |-> result.exc]
    ELSE Unpack(ReturnedTuple(result), 2)

\* get_cached_posts(status, limit, offset, 'post_id', order, query) after its
\* call of translate has returned
GetCachedPosts ==
    /\ IsBlank(query) \/ pc = "done"
    /\ \E page \in Paging :
           posts' = [limit |-> page.limit, offset |-> page.offset, order |-> page.order,
                     rows |-> IF Where.ok
                              THEN Fetch(cache, Where.vals[1], Where.vals[2],
                                         page.order, page.limit, page.offset)
                              ELSE <<>>]
    /\ UNCHANGED <<call, cache, count, threaded, served, singleton>>

\* get_cache_count(status, query) after its call of translate has returned
GetCacheCount ==
    /\ IsBlank(query) \/ pc = "done"
    /\ count' = [n |-> IF Where.ok
                       THEN Cardinality(Select(cache, Where.vals[1], Where.vals[2]))
                       ELSE 0]
    /\ UNCHANGED <<call, cache, posts, threaded, served, singleton>>

NextCache == Call \/ Step \/ Return \/ CachePost \/ GetCachedPosts \/ GetCacheCount

----------------------------------------------------------------------------
(* The post service: get_posts with the matching-tags filter of the        *)
(* application layer, on the repository above                              *)

\* the length of the longest prefix of s whose characters satisfy In
SpanWhile(s, In(_)) ==
    IF \E k \in DOMAIN s : ~In(s[k])
    THEN (CHOOSE k \in DOMAIN s : ~In(s[k]) /\ \A j \in 1 .. (k - 1) : In(s[j])) - 1
    ELSE Len(s)

NonSpace(c) == ~IsSpace(c)

\* the names a pattern \b(...): admits before the colon; \w+ admits any
AnyName == {}

ExclusionNames == {<<"e", "x", "c", "l", "u", "d", "e">>, <<"r", "e", "m", "o", "v", "e">>, <<"n", "e", "g", "a", "t", "e">>, <<"n", "o", "t">>}

RECURSIVE SubNamed(_, _, _)
\* re.sub(r'\b\w+:[^\s]+', '', s) and re.sub(r'\b(exclude|...):\S+', '', s):
\* s without its leftmost non-overlapping matches; prev is the character
\* before s
SubNamed(s, prev, names) ==
    IF s = <<>> THEN <<>>
    ELSE Bind(IF IsWord(prev) THEN 0 ELSE SpanWhile(s, IsWord), LAMBDA n :
         IF /\ n >= 1
            /\ names = AnyName \/ SubSeq(s, 1, n) \in names
            /\ Len(s) >= n + 2
            /\ s[n + 1] = ":"
            /\ ~IsSpace(s[n + 2])
         THEN Bind(n + 1 + SpanWhile(DropFirst(s, n + 1), NonSpace), LAMBDA m :
                   SubNamed(DropFirst(s, m), s[m], names))
         ELSE <<s[1]>> \o SubNamed(Tail(s), s[1], names))

RECURSIVE SubNegations(_)
\* re.sub(r'[-!]\S+', '', s)
SubNegations(s) ==
    IF s = <<>> THEN <<>>
    ELSE IF s[1] \in {"-", "!"} /\ Len(s) >= 2 /\ ~IsSpace(s[2])
    THEN SubNegations(DropFirst(s, 1 + SpanWhile(Tail(s), NonSpace)))
    ELSE <<s[1]>> \o SubNegations(Tail(s))

\* the replacement of parentheses and OR operators by spaces
Unpunctuate(s) == [k \in DOMAIN s |-> IF s[k] \in {"(", ")", "|", "~", ","} THEN " " ELSE s[k]]

\* _extract_search_tags(search_query)
ExtractSearchTags(search_query) ==
    IF search_query = <<>> THEN <<>>
    ELSE Bind(SelectSeq(Split(Unpunctuate(SubNamed(SubNegations(
                  SubNamed(search_query, "", AnyName)), "", ExclusionNames))),
                  LAMBDA token : ~StartsWith(token, <<"-">>) /\ ~StartsWith(token, <<"!">>)),
              LAMBDA kept : [k \in DOMAIN kept |-> Lower(kept[k])])

\* the names of the pattern of _check_for_matching_tags_filter
MatchingTagsNames == {<<"m", "a", "t", "c", "h", "i", "n", "g", "-", "t", "a", "g", "s">>, <<"m", "a", "t", "c", "h", "i", "n", "g", "t", "a", "g", "s">>, <<"m", "a", "t", "c", "h", "e", "s">>}

\* the part ([<>]=?|=)? of the pattern at the start of s
OperatorAt(s) ==
    IF StartsWith(s, <<"<", "=">>) \/ StartsWith(s, <<">", "=">>) THEN SubSeq(s, 1, 2)
    ELSE IF StartsWith(s, <<"<">>) \/ StartsWith(s, <<">">>) \/ StartsWith(s, <<"=">>) THEN SubSeq(s, 1, 1)
    ELSE <<>>

IsDigit(c) == c \in Digits

\* the part (matching-tags|matchingtags|matches):([<>]=?|=)?(\d+) of the
\* pattern matched at the start of s, without regard to case
NameAt(s) ==
    IF \E name \in MatchingTagsNames : StartsWith(Lower(s), name \o <<":">>)
    THEN Bind(DropFirst(s, 1 + Len(CHOOSE name \in MatchingTagsNames :
                                       StartsWith(Lower(s), name \o <<":">>))),
              LAMBDA rest :
         Bind(DropFirst(rest, Len(OperatorAt(rest))), LAMBDA digits :
              IF SpanWhile(digits, IsDigit) >= 1
              THEN [ok |-> TRUE,
                    operator |-> IF OperatorAt(rest) = <<>> THEN <<"=">> ELSE OperatorAt(rest),
                    threshold |-> SmallDec(SubSeq(digits, 1, SpanWhile(digits, IsDigit)))]
              ELSE [ok |-> FALSE]))
    ELSE [ok |-> FALSE]

\* the whole pattern, with its optional group ([-!])?, matched at the start of s
FilterAt(s) ==
    IF s # <<>> /\ s[1] \in {"-", "!"} /\ NameAt(Tail(s)).ok
    THEN [t |-> "tuple", operator |-> NameAt(Tail(s)).operator,
          threshold |-> NameAt(Tail(s)).threshold, is_negated |-> TRUE]
    ELSE IF NameAt(s).ok
    THEN [t |-> "tuple", operator |-> NameAt(s).operator,
          threshold |-> NameAt(s).threshold, is_negated |-> FALSE]
    ELSE NoneVal

\* _check_for_matching_tags_filter(search_query): re.search takes the
\* leftmost match
CheckForMatchingTagsFilter(search_query) ==
    Bind({p \in DOMAIN search_query : FilterAt(DropFirst(search_query, p - 1)) # NoneVal},
         LAMBDA found :
         IF found = {} THEN NoneVal
         ELSE FilterAt(DropFirst(search_query,
                                 (CHOOSE p \in found : \A o \in found : p <= o) - 1)))

RECURSIVE RegexMatch(_, _)
\* re.compile('^' + pattern + '$', re.IGNORECASE).match(text) for a pattern
\* whose special characters are '.' and the '.*' put for every '*'
RegexMatch(pattern, text) ==
    IF pattern = <<>> THEN text = <<>>
    ELSE IF pattern[1] = "*"
    THEN RegexMatch(Tail(pattern), text)
             \/ (text # <<>> /\ text[1] # "\n" /\ RegexMatch(pattern, Tail(text)))
    ELSE /\ text # <<>>
         /\ (pattern[1] = "." /\ text[1] # "\n") \/ LowerChar(pattern[1]) = LowerChar(text[1])
         /\ RegexMatch(Tail(pattern), Tail(text))

\* _count_matching_tags(post, search_tags)
CountMatchingTags(post, search_tags) ==
    Cardinality({k \in DOMAIN search_tags :
        \E j \in DOMAIN post.tags :
            IF Contains(search_tags[k], "*")
            THEN RegexMatch(search_tags[k], Lower(post.tags[j]))
            ELSE search_tags[k] = Lower(post.tags[j])})

\* the comparison of _apply_matching_tags_filter
Satisfies(match_count, operator, threshold, is_negated) ==
    is_negated # (IF operator = <<">">> THEN match_count > threshold
                  ELSE IF operator = <<">", "=">> THEN match_count >= threshold
                  ELSE IF operator = <<"<">> THEN match_count < threshold
                  ELSE IF operator = <<"<", "=">> THEN match_count <= threshold
                  ELSE IF operator = <<"=">> THEN match_count = threshold
                  ELSE FALSE)

\* _apply_matching_tags_filter(posts, search_query, operator, threshold,
\* is_negated) for the posts all_posts: the posts kept carry their
\* _match_count
ApplyMatchingTagsFilter(all_posts, search_query, operator, threshold, is_negated) ==
    Bind(ExtractSearchTags(search_query), LAMBDA search_tags :
    IF search_tags = <<>> THEN all_posts
    ELSE Bind(SelectSeq(all_posts, LAMBDA post :
                  Satisfies(CountMatchingTags(post, search_tags), operator, threshold,
                            is_negated)),
              LAMBDA filtered :
              [k \in DOMAIN filtered |->
                  [id |-> filtered[k].id, status |-> filtered[k].status,
                   tags |-> filtered[k].tags,
                   match_count |-> CountMatchingTags(filtered[k], search_tags)]]))

\* seq[from:to] of Python for indices that are not negative
Slice(seq, from, to) == SubSeq(seq, from + 1, IF to < Len(seq) THEN to ELSE Len(seq))

\* what random.shuffle can leave of a list
Shuffles(seq) ==
    {[k \in DOMAIN seq |-> seq[p[k]]] :
         p \in {f \in [DOMAIN seq -> DOMAIN seq] : \A j, k \in DOMAIN seq : f[j] = f[k] => j = k}}

\* the arguments limit, offset, sort_by and order of get_posts
Requests == {
    [limit |-> 1000000, offset |-> 0, sort_by |-> <<"p", "o", "s", "t", "_", "i", "d">>, order |-> <<"D", "E", "S", "C">>],
    [limit |-> 1, offset |-> 0, sort_by |-> <<"p", "o", "s", "t", "_", "i", "d">>, order |-> <<"A", "S", "C">>],
    [limit |-> 1, offset |-> 1, sort_by |-> <<"p", "o", "s", "t", "_", "i", "d">>, order |-> <<"D", "E", "S", "C">>],
    [limit |-> 1, offset |-> 0, sort_by |-> <<"r", "a", "n", "d", "o", "m">>, order |-> <<"D", "E", "S", "C">>]}

\* the answer of database.get_cache_count(status, query)
CacheCount ==
    IF Where.ok THEN Cardinality(Select(cache, Where.vals[1], Where.vals[2])) ELSE 0

\* the answer of database.get_cached_posts(status, limit, offset, 'post_id',
\* order, query)
CachedPosts(limit, offset, order) ==
    IF Where.ok THEN Fetch(cache, Where.vals[1], Where.vals[2], order, limit, offset)
    ELSE <<>>

\* sort_by and order of get_posts after the override by the metadata
SortBy(request) ==
    IF Truthy(result.metadata.sort_by) THEN result.metadata.sort_by.v ELSE request.sort_by

Order(request) ==
    IF Truthy(result.metadata.sort_order) THEN Upper(result.metadata.sort_order.v)
    ELSE request.order

\* the posts of get_posts before the page is cut: all the posts of the
\* repository for the query, filtered when there is a matching-tags filter
Candidates(order, filter) ==
    Bind(CachedPosts(CacheCount, 0, order), LAMBDA all_posts :
         IF filter = NoneVal THEN all_posts
         ELSE ApplyMatchingTagsFilter(all_posts, query, filter.operator, filter.threshold,
                                      filter.is_negated))

\* the dict get_posts returns, with the arguments of the call
Served(request, page, total) ==
    [raised |-> FALSE, limit |-> request.limit, offset |-> request.offset,
     sort_by |-> SortBy(request), order |-> Order(request), posts |-> page,
     total |-> total]

\* get_posts(filter_type, limit, offset, sort_by, order, query) after its
\* call of translate has returned, on a service whose cache is initialised;
\* filter_type is 'all' for the status None and the status otherwise, and
\* the rows are sorted by post_id or shuffled
GetPosts ==
    /\ pc = "done"
    /\ status \in {None, saved, pending}
    /\ \E request \in Requests :
           IF result.raised THEN served' = Raised(result.exc)
           ELSE /\ SortBy(request) \in {<<"p", "o", "s", "t", "_", "i", "d">>, <<"i", "d">>, <<"r", "a", "n", "d", "o", "m">>}
                /\ Bind(IF query = <<>> THEN NoneVal ELSE CheckForMatchingTagsFilter(query),
                        LAMBDA filter :
                   IF SortBy(request) = <<"r", "a", "n", "d", "o", "m">>
                   THEN \E shuffled \in Shuffles(Candidates(<<"A", "S", "C">>, filter)) :
                            served' = Served(request,
                                Slice(shuffled, request.offset, request.offset + request.limit),
                                IF filter = NoneVal THEN CacheCount ELSE Len(shuffled))
                   ELSE IF filter # NoneVal
                   THEN Bind(Candidates(Order(request), filter), LAMBDA filtered_posts :
                            served' = Served(request,
                                Slice(filtered_posts, request.offset,
                                      request.offset + request.limit),
                                Len(filtered_posts)))
                   ELSE served' = Served(request,
                            CachedPosts(request.limit, request.offset, Order(request)),
                            CacheCount))
    /\ UNCHANGED <<call, repository, threaded, singleton>>

NextService == Call \/ Step \/ Return \/ CachePost \/ GetPosts

----------------------------------------------------------------------------
(* Calls of translate made by several threads on the one translator that   *)
(* get_query_translator hands out.  A thread is switched between any two   *)
(* passes of the tokenizer loop.                                           *)

\* the bound of the model on the number of threads
MaxThreads == 2

Threads == 1 .. MaxThreads

\* a frame that holds all threads' locals
FrameOfTranslator(thread) == 1

\* where the locals of the call of a thread live: clean_query, metadata and
\* the locals of _tokenize are names of the frame of the call, and every
\* call has a frame of its own
Frame(thread) == thread

\* the frames before any call
NoFrame == [clean_query |-> <<>>, metadata |-> QueryMetadata, locals |-> TokenizeStart]

\* the threads before their calls of translate(q, s) on the queries and the
\* statuses
StartThreads(queries, statuses) ==
    /\ threads \in [Threads -> [query : queries, status : statuses, pc : {"call"},
                                result : {NoneVal}]]
    /\ frames = [thread \in Threads |-> NoFrame]
    /\ query = <<>> /\ status = None /\ utcoffset = 0
    /\ pc = "call"
    /\ clean_query = <<>>
    /\ metadata = QueryMetadata
    /\ tokens = <<>> /\ buffer = <<>> /\ paren_depth = 0
    /\ in_field_value = FALSE /\ i = 0
    /\ ast = NoneVal
    /\ result = NoneVal
    /\ cache = {}
    /\ posts = NoneVal
    /\ count = NoneVal
    /\ served = NoneVal
    /\ query_translator = Instance(1) /\ instances = 1 /\ callers = <<>>

\* a thread enters translate: the blank check, then _extract_metadata
ThreadCall(thread) ==
    /\ threads[thread].pc = "call"
    /\ IF IsBlank(threads[thread].query)
       THEN /\ threads' = [threads EXCEPT ![thread].pc = "done",
                                          ![thread].result = Fallback(threads[thread].status)]
            /\ UNCHANGED frames
       ELSE /\ threads' = [threads EXCEPT ![thread].pc = "tokenize"]
            /\ frames' = [frames EXCEPT ![Frame(thread)] =
                   Bind(ExtractMetadata(threads[thread].query), LAMBDA m :
                        [clean_query |-> m.clean_query, metadata |-> m.metadata,
                         locals |-> TokenizeStart])]
    /\ UNCHANGED <<call, repository, served, singleton>>

\* a thread makes one pass through the loop of _tokenize
ThreadStep(thread) ==
    /\ threads[thread].pc = "tokenize"
    /\ frames[Frame(thread)].locals.i < Len(frames[Frame(thread)].clean_query)
    /\ frames' = [frames EXCEPT ![Frame(thread)].locals =
           TokenizeStep(frames[Frame(thread)].clean_query, frames[Frame(thread)].locals)]
    /\ UNCHANGED <<call, repository, threads, served, singleton>>

\* a thread leaves the loop of _tokenize, parses, emits and returns
ThreadReturn(thread) ==
    /\ threads[thread].pc = "tokenize"
    /\ frames[Frame(thread)].locals.i >= Len(frames[Frame(thread)].clean_query)
    /\ threads' = [threads EXCEPT
           ![thread].pc = "done",
           ![thread].result = TranslateTokens(TokenizeEnd(frames[Frame(thread)].locals),
                                              frames[Frame(thread)].metadata,
                                              threads[thread].status)]
    /\ UNCHANGED <<call, repository, frames, served, singleton>>

NextThreads ==
    \E thread \in Threads : ThreadCall(thread) \/ ThreadStep(thread) \/ ThreadReturn(thread)

----------------------------------------------------------------------------
(* get_query_translator called by several threads.  A thread is switched   *)
(* between any two of: the test of the global, the construction, the       *)
(* assignment to the global, the read of the global for the return.        *)

\* a caller before its call
NoCaller == [pc |-> "test", made |-> NoneVal, held |-> NoneVal]

\* the module after import, before any call of get_query_translator
StartAccess ==
    /\ query_translator = NoneVal
    /\ instances = 0
    /\ callers = [thread \in Threads |-> NoCaller]
    /\ served = NoneVal
    /\ threads = <<>> /\ frames = <<>>
    /\ query = <<>> /\ status = None /\ utcoffset = 0
    /\ pc = "call"
    /\ clean_query = <<>>
    /\ metadata = QueryMetadata
    /\ tokens = <<>> /\ buffer = <<>> /\ paren_depth = 0
    /\ in_field_value = FALSE /\ i = 0
    /\ ast = NoneVal
    /\ result = NoneVal
    /\ cache = {}
    /\ posts = NoneVal
    /\ count = NoneVal

\* a thread evaluates the condition of `if _query_translator is None`
AccessTest(thread) ==
    /\ callers[thread].pc = "test"
    /\ callers' = [callers EXCEPT ![thread].pc = IF query_translator = NoneVal
                                                 THEN "construct" ELSE "return"]
    /\ UNCHANGED <<call, repository, threaded, served, query_translator, instances>>

\* QueryTranslator(): one more instance, held by the thread
AccessConstruct(thread) ==
    /\ callers[thread].pc = "construct"
    /\ instances' = instances + 1
    /\ callers' = [callers EXCEPT ![thread].pc = "assign", ![thread].made = Instance(instances + 1)]
    /\ UNCHANGED <<call, repository, threaded, served, query_translator>>

\* _query_translator = <the instance constructed>
AccessAssign(thread) ==
    /\ callers[thread].pc = "assign"
    /\ query_translator' = callers[thread].made
    /\ callers' = [callers EXCEPT ![thread].pc = "return"]
    /\ UNCHANGED <<call, repository, threaded, served, instances>>

\* return _query_translator
AccessReturn(thread) ==
    /\ callers[thread].pc = "return"
    /\ callers' = [callers EXCEPT ![thread].pc = "done", ![thread].held = query_translator]
    /\ UNCHANGED <<call, repository, threaded, served, query_translator, instances>>

\* the thread keeps the instance and calls get_query_translator again
AccessAgain(thread) ==
    /\ callers[thread].pc = "done"
    /\ callers' = [callers EXCEPT ![thread].pc = "test"]
    /\ UNCHANGED <<call, repository, threaded, served, query_translator, instances>>

NextAccess ==
    \E thread \in Threads :
        \/ AccessTest(thread)
        \/ AccessConstruct(thread)
        \/ AccessAssign(thread)
        \/ AccessReturn(thread)
        \/ AccessAgain(thread)

----------------------------------------------------------------------------
(* Inputs                                                                  *)

RECURSIVE Sentences(_, _)
\* the queries of at most n terms joined by single spaces
Sentences(terms, n) ==
    IF n = 0 THEN {<<>>}
    ELSE LET shorter == Sentences(terms, n - 1)
         IN shorter \cup terms
                    \cup {s \o <<" ">> \o t : s \in shorter \ {<<>>}, t \in terms}

\* a bare tag between two others, a negated tag, a tag with a '?', a tag with a
\* parenthetical part, well-formed and malformed field filters, groups
Terms == {
    <<"a">>, <<"-", "b">>, <<"b", "|", "c">>, <<"w", "?">>, <<"n", "_", "(", "s", ")">>,
    <<"s", "c", "o", "r", "e", ":", ">", "5">>, <<"s", "c", "o", "r", "e", ":", "x">>, <<"f", "i", "l", "e", "_", "s", "i", "z", "e", ":", "i", "n", "f">>, <<"t", "i", "t", "l", "e", ":", "x", "*">>, <<"f", "o", "o", ":", "b", "a", "r">>,
    <<"c", "r", "e", "a", "t", "e", "d", "_", "a", "t", ":", "2", "0", "2", "3", "-", "1", "1", "-", "1", "4">>, <<"-", "d", "u", "r", "a", "t", "i", "o", "n", ":", "2", ".", "5", "<">>,
    <<"(", "a", " ", "|", " ", "b", ")">>, <<"(", "n", "_", "(", "s", ")", ")">>, <<"(", "s", "c", "o", "r", "e", ":", ">", "5", " ", "|", " ", "b", ")">>}

MaxTerms == 2

Init == Start(Sentences(Terms, MaxTerms), {None, saved, pending}, {0})

Spec == Init /\ [][Next]_vars

----------------------------------------------------------------------------
(* What a call leaves behind, read off the state                           *)

\* the call is over and a step of it failed: no AST came out of a query that
\* is not blank
Failed == pc = "done" /\ ast = NoneVal /\ ~IsBlank(query)

\* the token is among the tokens of the call
HasToken(t) == \E k \in DOMAIN tokens : tokens[k] = t

\* the number of placeholders of a sql text
PlaceholderCount(sql) == Cardinality({k \in DOMAIN sql : sql[k] = "?"})

\* where the n-th placeholder of a sql text stands, read left to right
NthPlaceholder(sql, n) ==
    CHOOSE k \in DOMAIN sql :
        sql[k] = "?" /\ Cardinality({j \in 1..k : sql[j] = "?"}) = n

\* the expressions a placeholder is compared with
ColumnPieces ==
    {e[2] : e \in {n \in Names : n[1] \in NUMERIC_FIELDS \cup TEXT_FIELDS \cup DATE_FIELDS}}
    \cup {"tags", "status", TagCountExpr[1], "(CAST(width AS REAL) / CAST(height AS REAL))"}

\* the expression the placeholder at position k is compared with: the nearest
\* one to its left
ColumnBefore(sql, k) ==
    sql[CHOOSE j \in 1..k : sql[j] \in ColumnPieces
                            /\ \A h \in (j + 1)..k : sql[h] \notin ColumnPieces]

\* the expression a filter on a key is rendered with
ColumnOf(key) ==
    IF key = <<"t", "a", "g">> THEN "tags"
    ELSE IF key = <<"t", "a", "g", "_", "c", "o", "u", "n", "t">> THEN TagCountExpr[1]
    ELSE IF key = <<"a", "s", "p", "e", "c", "t", "_", "r", "a", "t", "i", "o">>
    THEN "(CAST(width AS REAL) / CAST(height AS REAL))"
    ELSE Get(Names, key, "")

RECURSIVE Leaves(_)
RECURSIVE LeavesOf(_)
\* the filters of an AST, left to right
Leaves(node) ==
    IF node.type = "FILTER" THEN <<node>> ELSE LeavesOf(node.children)

LeavesOf(children) ==
    IF children = <<>> THEN <<>>
    ELSE Leaves(children[1]) \o LeavesOf(Tail(children))

\* the filters that are compared with a parameter: those on a tag or on a
\* known column
BoundLeaves(node) ==
    SelectSeq(Leaves(node), LAMBDA leaf :
        \/ leaf.key.v = <<"t", "a", "g">>
        \/ leaf.key.v \in (NUMERIC_FIELDS \cup TEXT_FIELDS \cup DATE_FIELDS)
                          \ {<<"m", "a", "t", "c", "h", "i", "n", "g", "_", "t", "a", "g", "s">>})

\* the parameter is the value of the filter: the value itself, its wildcard
\* pattern, or the quoted tag pattern
Carries(param, leaf) ==
    \/ param = leaf.value
    \/ /\ leaf.value.t = "str"
       /\ param \in {StrVal(ReplaceChar(leaf.value.v, "*", "%")),
                     StrVal(<<"%", "\"">> \o ReplaceChar(leaf.value.v, "*", "%")
                            \o <<"\"", "%">>)}

----------------------------------------------------------------------------
(* C1                                                                      *)

\* C1: translate returns a result for every query and every status and lets no
\* exception reach the caller; when a step of the call fails, the result is
\* ('status = ?', [status]) with a status and ('1=1', []) without one, whatever
\* else the query holds.
C1_NeverRaisesAndFallsBack ==
    pc = "done" =>
        /\ ~result.raised
        /\ Failed =>
              IF status = None
              THEN result.sql = <<"1=1">> /\ result.params = <<>>
              ELSE result.sql = <<"status", " = ", "?">> /\ result.params = <<status>>

\* a call with a status fell back on a query of a valid tag and a size that
\* overflows
C1_Witness ==
    /\ Failed
    /\ status = saved
    /\ HasToken(<<"a">>)
    /\ HasToken(<<"f", "i", "l", "e", "_", "s", "i", "z", "e", ":", "i", "n", "f">>)
    /\ result.sql = <<"status", " = ", "?">>

----------------------------------------------------------------------------
(* C2                                                                      *)

\* C2: the sql returned by translate has as many ? placeholders as params has
\* values, the i-th parameter is the value of the filter the i-th placeholder
\* is compared in, and a supplied status is the last parameter, compared with
\* the status column.
C2_PlaceholdersMatchParams ==
    (pc = "done" /\ ~result.raised) =>
        /\ PlaceholderCount(result.sql) = Len(result.params)
        /\ status # None =>
              /\ result.params # <<>>
              /\ result.params[Len(result.params)] = status
              /\ ColumnBefore(result.sql, NthPlaceholder(result.sql, Len(result.params)))
                     = "status"
        /\ ast # NoneVal =>
              Bind(BoundLeaves(ast), LAMBDA leaves :
                  /\ Len(leaves) + (IF status # None THEN 1 ELSE 0) = Len(result.params)
                  /\ \A n \in DOMAIN leaves :
                        /\ ColumnBefore(result.sql, NthPlaceholder(result.sql, n))
                               = ColumnOf(leaves[n].key.v)
                        /\ Carries(result.params[n], leaves[n]))

\* a tag with a '?' in it, a score filter and a status: three parameters, the
\* '?' of the tag among them
C2_Witness ==
    /\ pc = "done"
    /\ query = <<"w", "?", " ", "s", "c", "o", "r", "e", ":", ">", "5">>
    /\ status = saved
    /\ Len(result.params) = 3
    /\ result.params[1] = StrVal(<<"%", "\"", "w", "?", "\"", "%">>)
    /\ result.params[2] = PyInt(5)

----------------------------------------------------------------------------
(* C3                                                                      *)

\* the queries of terms that are a shape around a value: a bare tag, a negated
\* owner, a title, a score above a bound, a group of a tag and a second tag
ValueShapes == {
    <<<<>>, <<>>>>,
    <<<<"-", "o", "w", "n", "e", "r", ":">>, <<>>>>,
    <<<<"t", "i", "t", "l", "e", ":">>, <<>>>>,
    <<<<"s", "c", "o", "r", "e", ":", ">">>, <<>>>>,
    <<<<"(", "a", "|">>, <<")">>>>}

Values == {<<"x">>, <<"y", "*">>, <<"5">>}

ValueTerms == {sh[1] \o v \o sh[2] : sh \in ValueShapes, v \in Values}

InitValues == Start(Sentences(ValueTerms, MaxTerms), {None, saved}, {0})

SpecValues == InitValues /\ [][Next]_vars

\* the shape of a term of ValueTerms, and its value
TermShape(t) == CHOOSE sh \in ValueShapes : \E v \in Values : t = sh[1] \o v \o sh[2]

TermValue(t) == SubSeq(t, Len(TermShape(t)[1]) + 1, Len(t) - Len(TermShape(t)[2]))

\* the queries that differ from q in the values of its terms only
Variants(q) ==
    Bind(Split(q), LAMBDA ts :
        {Join(<<" ">>, [k \in DOMAIN ts |->
                           TermShape(ts[k])[1] \o w[k] \o TermShape(ts[k])[2]]) :
            w \in [DOMAIN ts -> Values]})

\* the values of the field filters of two such queries agree, term by term, on
\* holding the wildcard
SameWildcards(q1, q2) ==
    Bind(Split(q1), LAMBDA ts1 : Bind(Split(q2), LAMBDA ts2 :
        \A k \in DOMAIN ts1 :
            Contains(TermShape(ts1[k])[1], ":") =>
                (Contains(TermValue(ts1[k]), "*") <=> Contains(TermValue(ts2[k]), "*"))))

\* every value of the query parses: the call does not fall back
Parses(q) == ParseQuery(Tokenize(ExtractMetadata(q).clean_query)).ok

\* the fixed fragments, the column names and the operators of a sql text
SqlFragments ==
    {"1=1", "?", "(", ")", " ", " AND ", " OR ", "CAST(", " AS TEXT)", "DATE(",
     "LOWER(", " IS NOT NULL AND ", "(length(tags) - length(replace(tags, ',', '')) + 1)",
     "(CAST(width AS REAL) / CAST(height AS REAL))",
     "tags", "status", "score", "width", "height", "post_id", "file_size", "duration",
     "owner", "title", "rating", "file_type", "created_at", "downloaded_at",
     "=", "!=", "<", "<=", ">", ">=", " = ", " != ", " LIKE ", " NOT LIKE "}

FragmentsOnly(sql) == \A k \in DOMAIN sql : sql[k] \in SqlFragments

\* C3 as stated: the sql text is made of fixed fragments, column names and
\* operators only, and two queries that differ only in their values yield the
\* same sql text.
C3_SameSqlForAllValues ==
    (pc = "done" /\ ~result.raised) =>
        /\ FragmentsOnly(result.sql)
        /\ \A q2 \in Variants(query) : Translate(q2, status).sql = result.sql

\* C3: the sql text is made of fixed fragments, column names and operators
\* only: no character of a tag, of a field value or of the status is in it; and
\* two queries that differ only in their values yield the same sql text when
\* neither falls back and the values of their field filters agree on holding
\* the wildcard *.
C3_SameSqlForLikeValues ==
    (pc = "done" /\ ~result.raised) =>
        /\ FragmentsOnly(result.sql)
        /\ ~Failed =>
              \A q2 \in Variants(query) :
                  (Parses(q2) /\ SameWildcards(query, q2)) =>
                      Translate(q2, status).sql = result.sql

\* a query of a tag and a title with a status was translated, and a query of
\* another tag and another title gives the same sql
C3_Witness ==
    /\ pc = "done"
    /\ query = <<"x", " ", "t", "i", "t", "l", "e", ":", "5">>
    /\ status = saved
    /\ result.sql = <<"(", "(", "tags", " LIKE ", "?", ")", " AND ", "(", "LOWER(", "title",
                      ")", " = ", "LOWER(", "?", ")", ")", ")", " AND ", "status", " = ", "?">>
    /\ Translate(<<"5", " ", "t", "i", "t", "l", "e", ":", "x">>, status).sql = result.sql

----------------------------------------------------------------------------
(* C4                                                                      *)

\* the filter of a bare tag
TagFilter(tag) == FilterNode(<<"t", "a", "g">>, StrVal(tag), <<"=">>, FALSE)

BareTags == {<<"a">>, <<"b">>, <<"c">>, <<"w", "?">>}

\* C4: OR binds tighter than juxtaposition: for bare tags a, b, c the query
\* "a b|c" is parsed into an AND node whose children are the tag filter a and
\* an OR node over the tag filters b and c.
C4_OrBindsTighter ==
    pc = "done" =>
        \A a, b, c \in BareTags :
            query = a \o <<" ">> \o b \o <<"|">> \o c =>
                ast = GroupNode("AND", <<TagFilter(a),
                                         GroupNode("OR", <<TagFilter(b), TagFilter(c)>>)>>)

----------------------------------------------------------------------------
(* C5                                                                      *)

Timestamps == {<<"1", "7", "0", "0", "0", "0", "0", "0", "0", "0">>, <<"8", "6", "3", "9", "9">>}

Zones == {0, 3600, -18000}

DateQuery(value) == <<"c", "r", "e", "a", "t", "e", "d", "_", "a", "t", ":">> \o value

\* 'YYYY-MM-DD HH:MM:SS' of a timestamp in a zone
LocalTime(ts, zone) == FormatDateTime(FromTimestamp(DecToBits(ts), zone))

InitDates ==
    Start({DateQuery(ts) : ts \in Timestamps}
              \cup {DateQuery(LocalTime(ts, zone)) : ts \in Timestamps, zone \in Zones},
          {None, saved}, Zones)

SpecDates == InitDates /\ [][Next]_vars

\* C5: a date filter given as 'YYYY-MM-DD HH:MM:SS' translates to the sql and
\* the params of the filter given as the Unix timestamp of the same instant in
\* the time zone of the call.
C5_TimestampEqualsDateTime ==
    (pc = "done" /\ ~result.raised) =>
        \A ts \in Timestamps :
            query = DateQuery(LocalTime(ts, utcoffset)) =>
                /\ result.sql = Translate(DateQuery(ts), status).sql
                /\ result.params = Translate(DateQuery(ts), status).params

----------------------------------------------------------------------------
(* C9                                                                      *)

\* a tag with a parenthetical part attached to a word
ParentheticalTag == <<"n", "_", "(", "s", ")">>

\* C9: a bare tag with a parenthetical part attached to a word is one term
\* token and gives no grouping token: alone, before a space, and inside a
\* parenthesised group, whose own parentheses are the only grouping tokens.
C9_ParentheticalTagIsOneToken ==
    pc = "done" =>
        /\ query = ParentheticalTag => tokens = <<ParentheticalTag>>
        /\ query = ParentheticalTag \o <<" ", "a">> => tokens = <<ParentheticalTag, <<"a">>>>
        /\ query = <<"a", " ">> \o ParentheticalTag => tokens = <<<<"a">>, ParentheticalTag>>
        /\ query = <<"(">> \o ParentheticalTag \o <<")">> =>
               tokens = <<<<"(">>, ParentheticalTag, <<")">>>>

----------------------------------------------------------------------------
(* C10                                                                     *)

\* bare tags and a field:value filter
GroupTerms == {<<"a">>, <<"b">>, <<"s", "c", "o", "r", "e", ":", ">", "5">>}

\* C10: for two terms a and b, bare tags or field:value filters, the query
\* '(a | b)' tokenizes to the five tokens '(', a, '|', b, ')'.
C10_GroupOfTwoTerms ==
    pc = "done" =>
        \A a, b \in GroupTerms :
            query = <<"(">> \o a \o <<" ", "|", " ">> \o b \o <<")">> =>
                tokens = <<<<"(">>, a, <<"|">>, b, <<")">>>>

----------------------------------------------------------------------------
(* C6 and C7                                                               *)

\* the numeric fields by name
NumericNames == NUMERIC_FIELDS

MaxBound == 3

\* the bounds of the comparisons: the whole numbers up to MaxBound, and a
\* fraction
WholeBounds == {NatToDec(n) : n \in 0..MaxBound}

Bounds == WholeBounds \cup {<<"2", ".", "5">>}

OrderedOperators == {<<">">>, <<">", "=">>, <<"<">>, <<"<", "=">>}

\* the operator glyphs and where they stand: before the value, after it, nowhere
Placements ==
    {<<op, <<>>>> : op \in OrderedOperators \cup {<<"=">>}}
    \cup {<<<<>>, op>> : op \in OrderedOperators \cup {<<"=">>}}
    \cup {<<<<>>, <<>>>>}

Comparison(prefix, field, before, n, after) ==
    prefix \o field \o <<":">> \o before \o n \o after

InitComparisons ==
    Start({Comparison(prefix, f, pl[1], n, pl[2]) :
               prefix \in {<<>>, <<"-">>}, f \in NumericNames, pl \in Placements, n \in Bounds},
          {None, saved}, {0})

SpecComparisons == InitComparisons /\ [][Next]_vars

\* inv: > to <=, >= to <, < to >=, <= to >
Inv(op) ==
    IF op = <<">">> THEN <<"<", "=">>
    ELSE IF op = <<">", "=">> THEN <<"<">>
    ELSE IF op = <<"<">> THEN <<">", "=">>
    ELSE <<">">>

\* the operator as it stands in a sql text
Glyph(op) ==
    IF op = <<">">> THEN ">" ELSE IF op = <<">", "=">> THEN ">="
    ELSE IF op = <<"<">> THEN "<" ELSE IF op = <<"<", "=">> THEN "<=" ELSE "="

HasPiece(sql, piece) == \E k \in DOMAIN sql : sql[k] = piece

\* C6: for every numeric field f, bound n and ordered operator op,
\* translate("-f:" + op + n) returns the sql and the params of
\* translate("f:" + inv(op) + n); the negated comparison is rendered with the
\* operator inv(op) and with no NOT.
C6_NegationFlipsOperator ==
    (pc = "done" /\ ~result.raised) =>
        \A f \in NumericNames, op \in OrderedOperators, n \in Bounds :
            query = Comparison(<<"-">>, f, op, n, <<>>) =>
                /\ result.sql = Translate(Comparison(<<>>, f, Inv(op), n, <<>>), status).sql
                /\ result.params
                       = Translate(Comparison(<<>>, f, Inv(op), n, <<>>), status).params
                /\ \A k \in DOMAIN result.sql :
                       result.sql[k] \notin {" NOT LIKE ", "NOT", "NOT (", " NOT "}
                /\ (~Failed /\ f # <<"m", "a", "t", "c", "h", "i", "n", "g", "_", "t", "a", "g", "s">>) =>
                       /\ HasPiece(result.sql, Glyph(Inv(op)))
                       /\ \A other \in (OrderedOperators \cup {<<"=">>}) \ {Inv(op)} :
                              ~HasPiece(result.sql, Glyph(other))

\* -width:>=3 was translated to width < ? with the parameter 3
C6_Witness ==
    /\ pc = "done"
    /\ query = <<"-", "w", "i", "d", "t", "h", ":", ">", "=", "3">>
    /\ status = None
    /\ result.sql = <<"width", " ", "<", " ", "?">>
    /\ result.params = <<PyInt(3)>>

\* the operator of a value: the glyph before it as it stands, the glyph after
\* it turned round, = without a glyph
PlacedOperator(before, after) ==
    IF before # <<>> THEN before
    ELSE IF after = <<">">> THEN <<"<">>
    ELSE IF after = <<"<">> THEN <<">">>
    ELSE IF after = <<">", "=">> THEN <<"<", "=">>
    ELSE IF after = <<"<", "=">> THEN <<">", "=">>
    ELSE <<"=">>

----------------------------------------------------------------------------
(* C8                                                                      *)

MaxSize == 2

\* whole numbers: the small ones, those of the examples, and those around 2^53
Sizes ==
    {NatToDec(n) : n \in 0..MaxSize}
    \cup {<<"1", "0", "0">>, <<"5", "0", "0">>, <<"9", "0", "0", "7", "1", "9", "9", "2", "5", "4", "7", "4", "0", "9", "9", "1">>, <<"9", "0", "0", "7", "1", "9", "9", "2", "5", "4", "7", "4", "0", "9", "9", "2">>, <<"9", "0", "0", "7", "1", "9", "9", "2", "5", "4", "7", "4", "0", "9", "9", "3">>}

\* units of the size-unit table in several letter cases, and no unit
Units == {<<>>, <<"b">>, <<"B">>, <<"k", "b">>, <<"K", "B">>, <<"K", "b">>, <<"m", "b">>, <<"M", "b">>, <<"g", "b">>, <<"t", "b">>, <<"T", "B">>, <<"b", "y", "t", "e", "s">>, <<"K", "i", "l", "o", "B", "y", "t", "e", "s">>}

SizeQuery(n, u) == <<"f", "i", "l", "e", "_", "s", "i", "z", "e", ":">> \o n \o u

InitSizes == Start({SizeQuery(n, u) : n \in Sizes, u \in Units}, {None, saved}, {0})

SpecSizes == InitSizes /\ [][Next]_vars

\* the power of two of the multiplier of a unit: 1 for bytes, 1024 for
\* kilobytes, 1024^2 for megabytes, 1024^3 for gigabytes, 1024^4 for terabytes
UnitPower(u) ==
    IF u = <<>> \/ Lower(u)[1] = "b" THEN 0
    ELSE IF Lower(u)[1] = "k" THEN 10
    ELSE IF Lower(u)[1] = "m" THEN 20
    ELSE IF Lower(u)[1] = "g" THEN 30
    ELSE 40

\* the int n * multiplier(u)
Bytes(n, u) == IntVal(FALSE, Shl(DecToBits(n), UnitPower(u)))

\* the filter of the call is file_size = n * multiplier(u)
YieldsBytes(n, u) ==
    /\ ~Failed
    /\ ast = FilterNode(<<"f", "i", "l", "e", "_", "s", "i", "z", "e">>, Bytes(n, u), <<"=">>, FALSE)
    /\ result.params[1] = Bytes(n, u)
    /\ result.sql = IF status = None THEN <<"file_size", " ", "=", " ", "?">>
                    ELSE <<"(", "file_size", " ", "=", " ", "?", ")", " AND ",
                           "status", " = ", "?">>

\* file_size:1mb gives 1048576, file_size:500kb gives 512000, file_size:100
\* gives 100
SizeExamples ==
    /\ query = SizeQuery(<<"1">>, <<"m", "b">>) => result.params[1] = IntVal(FALSE, DecToBits(<<"1", "0", "4", "8", "5", "7", "6">>))
    /\ query = SizeQuery(<<"5", "0", "0">>, <<"k", "b">>) => result.params[1] = IntVal(FALSE, DecToBits(<<"5", "1", "2", "0", "0", "0">>))
    /\ query = SizeQuery(<<"1", "0", "0">>, <<>>) => result.params[1] = IntVal(FALSE, DecToBits(<<"1", "0", "0">>))

\* C8 as stated: a file_size filter with a whole number n and a unit u of the
\* size-unit table, in any letter case, yields the integer parameter
\* n * multiplier(u), and n bytes with no unit.
C8_SizeTimesMultiplier ==
    (pc = "done" /\ ~result.raised) =>
        /\ SizeExamples
        /\ \A n \in Sizes, u \in Units : query = SizeQuery(n, u) => YieldsBytes(n, u)

\* C8: the same for the whole numbers n up to 2^53 = 9007199254740992, which
\* float() takes without rounding.
C8_SizeTimesMultiplierUpTo2P53 ==
    (pc = "done" /\ ~result.raised) =>
        /\ SizeExamples
        /\ \A n \in Sizes, u \in Units :
               (query = SizeQuery(n, u) /\ ~MagLess(Shl(<<1>>, MantBits), DecToBits(n))) =>
                   YieldsBytes(n, u)

\* file_size:500KB was translated to file_size = ? with the parameter 512000
C8_Witness ==
    /\ pc = "done"
    /\ query = <<"f", "i", "l", "e", "_", "s", "i", "z", "e", ":", "5", "0", "0", "K", "B">>
    /\ status = saved
    /\ result.params = <<IntVal(FALSE, DecToBits(<<"5", "1", "2", "0", "0", "0">>)), saved>>

----------------------------------------------------------------------------
(* C11                                                                     *)

\* sort: and per-page: directives, well-formed and not
DirectiveTokens == {
    <<"s", "o", "r", "t", ":", "s", "c", "o", "r", "e", "-", "d", "e", "s", "c">>, <<"s", "o", "r", "t", ":", "s", "i", "z", "e", ">">>, <<"s", "o", "r", "t", ":">>,
    <<"p", "e", "r", "-", "p", "a", "g", "e", ":", "1", "0">>, <<"p", "e", "r", "-", "p", "a", "g", "e", ":", "0">>, <<"p", "e", "r", "-", "p", "a", "g", "e", ":", "-", "5">>,
    <<"p", "e", "r", "-", "p", "a", "g", "e", ":", "9", "9", "9", "9", "9", "9", "9", "9", "9", "9", "9", "9", "9", "9", "9", "9", "9", "9", "9", "9", "9", "9", "9">>,
    <<"P", "E", "R", "-", "P", "A", "G", "E", ":", "7">>, <<"p", "e", "r", "-", "p", "a", "g", "e", ":", "x">>, <<"p", "e", "r", "-", "p", "a", "g", "e", ":">>}

FilterTerms == {<<"r", "e", "d">>, <<"-", "b">>, <<"s", "c", "o", "r", "e", ":", "x">>}

\* 'sort:score-desc per-page:10 red'
MetadataExample == <<"s", "o", "r", "t", ":", "s", "c", "o", "r", "e", "-", "d", "e", "s", "c", " ", "p", "e", "r", "-", "p", "a", "g", "e", ":", "1", "0", " ", "r", "e", "d">>

InitDirectives ==
    Start(Sentences(DirectiveTokens \cup FilterTerms, MaxTerms) \cup {MetadataExample},
          {None, saved}, {0})

SpecDirectives == InitDirectives /\ [][Next]_vars

IsSortToken(token) == StartsWith(Lower(token), <<"s", "o", "r", "t", ":">>)

IsPerPageToken(token) == StartsWith(Lower(token), <<"p", "e", "r", "-", "p", "a", "g", "e", ":">>)

\* the query of the whitespace-delimited tokens ts without the k-th
Without(ts, k) == Join(<<" ">>, SubSeq(ts, 1, k - 1) \o SubSeq(ts, k + 1, Len(ts)))

\* the call returned the sql and the params of translate(q, status)
SameFilterAs(q) ==
    /\ result.sql = Translate(q, status).sql
    /\ result.params = Translate(q, status).params

\* 'sort:score-desc per-page:10 red' gives sort_by 'score', sort_order 'DESC'
\* and per_page 10
MetadataOfExample ==
    query = MetadataExample =>
        result.metadata = [sort_by |-> StrVal(<<"s", "c", "o", "r", "e">>), sort_order |-> DESC,
                           per_page |-> PyInt(10)]

\* C11 as stated: for every query q and every sort: or per-page: token added to
\* q as a whitespace-delimited token, translate returns the sql and the params
\* of translate(q), and the example query returns its metadata.
C11_DirectivesLeaveNoResidue ==
    (pc = "done" /\ ~result.raised) =>
        /\ MetadataOfExample
        /\ Bind(Split(query), LAMBDA ts :
               \A k \in DOMAIN ts :
                   (IsSortToken(ts[k]) \/ IsPerPageToken(ts[k])) =>
                       SameFilterAs(Without(ts, k)))

\* C11: the same for every query q that is not blank; added to a blank q, with
\* a status, a directive turns 'status = ?' into '(1=1) AND status = ?'.
C11_DirectivesLeaveNoResidueInFilters ==
    (pc = "done" /\ ~result.raised) =>
        /\ MetadataOfExample
        /\ Bind(Split(query), LAMBDA ts :
               \A k \in DOMAIN ts :
                   ((IsSortToken(ts[k]) \/ IsPerPageToken(ts[k]))
                        /\ ~IsBlank(Without(ts, k))) =>
                       SameFilterAs(Without(ts, k)))

\* the example query was translated to the filter of 'red', with its metadata
C11_Witness ==
    /\ pc = "done"
    /\ query = MetadataExample
    /\ status = saved
    /\ result.sql = <<"(", "tags", " LIKE ", "?", ")", " AND ", "status", " = ", "?">>
    /\ result.params = <<StrVal(<<"%", "\"", "r", "e", "d", "\"", "%">>), saved>>
    /\ result.metadata.per_page = PyInt(10)

----------------------------------------------------------------------------
(* C12                                                                     *)

\* per-page: directives with an integer n, and min(200, max(1, n))
PerPageCases == {
    <<<<"p", "e", "r", "-", "p", "a", "g", "e", ":", "1", "0">>, 10>>, <<<<"p", "e", "r", "-", "p", "a", "g", "e", ":", "0">>, 1>>, <<<<"p", "e", "r", "-", "p", "a", "g", "e", ":", "-", "5">>, 1>>,
    <<<<"p", "e", "r", "-", "p", "a", "g", "e", ":", "9", "9", "9", "9", "9", "9", "9", "9", "9", "9", "9", "9", "9", "9", "9", "9", "9", "9", "9", "9", "9", "9", "9">>, 200>>,
    <<<<"P", "E", "R", "-", "P", "A", "G", "E", ":", "7">>, 7>>}

IsPerPageCase(token) == \E c \in PerPageCases : c[1] = token

\* an int of [1, 200]
InPerPageRange(v) ==
    /\ v.t = "int"
    /\ ~IntLess(v, PyInt(1))
    /\ ~IntLess(PyInt(200), v)

\* C12: every result carries a per_page that is unset or an integer of
\* [1, 200]; the last per-page:<n> with an integer n (10, 0, -5, a 23-digit n,
\* 7) sets the extracted per_page to min(200, max(1, n)), and a call that
\* reaches its normal return hands that value back.
C12_PerPageUnsetOrClamped ==
    /\ (pc = "done" /\ ~result.raised) =>
           (result.metadata.per_page = NoneVal \/ InPerPageRange(result.metadata.per_page))
    /\ pc # "call" =>
           Bind(Split(query), LAMBDA ts :
               \A k \in DOMAIN ts : \A c \in PerPageCases :
                   (ts[k] = c[1] /\ \A j \in k + 1 .. Len(ts) : ~IsPerPageCase(ts[j])) =>
                       /\ metadata.per_page = PyInt(c[2])
                       /\ (pc = "done" /\ ~result.raised /\ ~Failed) =>
                              result.metadata.per_page = PyInt(c[2]))

\* 'per-page:0 red' returned per_page 1
C12_Witness ==
    /\ pc = "done"
    /\ query = <<"p", "e", "r", "-", "p", "a", "g", "e", ":", "0">> \o <<" ">> \o <<"r", "e", "d">>
    /\ ~Failed
    /\ result.metadata.per_page = PyInt(1)

----------------------------------------------------------------------------
(* C13                                                                     *)

\* a per-page: directive whose value is not an integer ('per-page:x',
\* 'per-page:')
IsDroppedPerPage(token) == IsPerPageToken(token) /\ ~IsPerPageCase(token)

\* the call returned what translate(q, status) returns
SameResultAs(q) ==
    /\ SameFilterAs(q)
    /\ result.metadata = Translate(q, status).metadata

\* C13 as stated: translate returns the sql, params, sort_by, sort_order and
\* per_page of the query without the per-page: directive that has no integer.
C13_BadPerPageDroppedAlone ==
    (pc = "done" /\ ~result.raised) =>
        Bind(Split(query), LAMBDA ts :
            \A k \in DOMAIN ts :
                IsDroppedPerPage(ts[k]) => SameResultAs(Without(ts, k)))

\* C13: the same when the query without the directive is not blank; alone in
\* a query with a status the directive gives '(1=1) AND status = ?', the blank
\* query gives 'status = ?'.
C13_BadPerPageDroppedFromFilters ==
    (pc = "done" /\ ~result.raised) =>
        Bind(Split(query), LAMBDA ts :
            \A k \in DOMAIN ts :
                (IsDroppedPerPage(ts[k]) /\ ~IsBlank(Without(ts, k))) =>
                    SameResultAs(Without(ts, k)))

\* 'per-page:10 per-page:x' kept per_page 10
C13_Witness ==
    /\ pc = "done"
    /\ query = <<"p", "e", "r", "-", "p", "a", "g", "e", ":", "1", "0">> \o <<" ">> \o <<"p", "e", "r", "-", "p", "a", "g", "e", ":", "x">>
    /\ status = saved
    /\ result.metadata.per_page = PyInt(10)
    /\ result.params = <<saved>>

----------------------------------------------------------------------------
(* C14                                                                     *)

\* searches for the tags of the posts: a tag, its negation, a prefix of it
\* with '*', other spellings of it, and the empty query
TagQueries == {
    <<>>, <<"r", "e", "d">>, <<"-", "r", "e", "d">>, <<"r", "e", "*">>, <<"a", "_", "b">>, <<"-", "a", "_", "b">>, <<"é">>, <<"-", "é">>, <<"é", "*">>,
    <<"R", "e", "d">>, <<"b", "l", "u", "e">>}

InitCache == Start(TagQueries, {None, saved}, {0})

SpecCache == InitCache /\ [][NextCache]_vars

\* the tag lists whose JSON text is the tags column of the row
TagListsOf(row) == {tags \in TagLists : JsonDumps(tags) = row.tags}

\* the predicate translate returned holds for the row
Matches(row) == Holds(result.sql, result.params, row)

\* C14: for a row whose tags hold the tag t, the predicate of translate(t)
\* holds, the predicate of translate('-' + t) does not, and the predicate of
\* translate(p + '*') holds for every prefix p of t.
C14_TagPredicateFindsItsRows ==
    (pc = "done" /\ ~result.raised /\ status = None) =>
        \A row \in cache : \A tags \in TagListsOf(row) : \A k \in DOMAIN tags :
            /\ query = tags[k] => Matches(row)
            /\ query = <<"-">> \o tags[k] => ~Matches(row)
            /\ \A n \in 1 .. Len(tags[k]) :
                   query = SubSeq(tags[k], 1, n) \o <<"*">> => Matches(row)

----------------------------------------------------------------------------
(* C15                                                                     *)

\* the direction markers: what stands before the field, what stands after it,
\* and the order the marker gives
SortMarkers == {
    <<<<>>, <<">">>, ASC>>, <<<<"<">>, <<>>, ASC>>,
    <<<<">">>, <<>>, DESC>>, <<<<>>, <<"<">>, DESC>>,
    <<<<>>, <<"-", "a", "s", "c">>, ASC>>, <<<<>>, <<"-", "a", "s", "c", "e", "n", "d", "i", "n", "g">>, ASC>>,
    <<<<>>, <<"-", "d", "e", "s", "c">>, DESC>>, <<<<>>, <<"-", "d", "e", "s", "c", "e", "n", "d", "i", "n", "g">>, DESC>>,
    <<<<>>, <<>>, NoneVal>>}

\* sort fields as typed and the names the sort-alias map gives them
SortFields == {
    <<<<"s", "c", "o", "r", "e">>, <<"s", "c", "o", "r", "e">>>>, <<<<"s", "i", "z", "e">>, <<"f", "i", "l", "e", "_", "s", "i", "z", "e">>>>, <<<<"i", "d">>, <<"p", "o", "s", "t", "_", "i", "d">>>>,
    <<<<"S", "i", "z", "e">>, <<"f", "i", "l", "e", "_", "s", "i", "z", "e">>>>, <<<<"u", "p", "l", "o", "a", "d">>, <<"c", "r", "e", "a", "t", "e", "d", "_", "a", "t">>>>, <<<<"f", "o", "o">>, <<"f", "o", "o">>>>}

\* the sort: token of a field with a marker
SortToken(field, marker) == <<"s", "o", "r", "t", ":">> \o marker[1] \o field \o marker[2]

SortTokens == {SortToken(f[1], m) : f \in SortFields, m \in SortMarkers}

\* a sort: directive alone, before a tag and after a tag
SortQueries ==
    SortTokens \cup {t \o <<" ">> \o <<"r", "e", "d">> : t \in SortTokens}
               \cup {<<"r", "e", "d">> \o <<" ">> \o t : t \in SortTokens}

InitSorts == Start(SortQueries, {None}, {0})

SpecSorts == InitSorts /\ [][Next]_vars

\* C15: a sort: directive with a trailing '>' or a leading '<' gives ASC, with
\* a leading '>' or a trailing '<' DESC, with the suffix -asc or -ascending
\* ASC, with -desc or -descending DESC, and without a marker no order; sort_by
\* is the rest of the value sent through the sort-alias map.  This holds of
\* the metadata extracted and of the metadata returned.
C15_SortDirectionMarkers ==
    pc # "call" =>
        Bind(Split(query), LAMBDA ts :
            \A k \in DOMAIN ts : \A f \in SortFields : \A m \in SortMarkers :
                ts[k] = SortToken(f[1], m) =>
                    /\ metadata.sort_by = StrVal(f[2])
                    /\ metadata.sort_order = m[3]
                    /\ pc = "done" =>
                           /\ result.metadata.sort_by = StrVal(f[2])
                           /\ result.metadata.sort_order = m[3])

\* 'red sort:<size' returned sort_by 'file_size' and ASC
C15_Witness ==
    /\ pc = "done"
    /\ query = <<"r", "e", "d">> \o <<" ">> \o <<"s", "o", "r", "t", ":", "<", "s", "i", "z", "e">>
    /\ result.metadata.sort_by = StrVal(<<"f", "i", "l", "e", "_", "s", "i", "z", "e">>)
    /\ result.metadata.sort_order = ASC

----------------------------------------------------------------------------
(* C16                                                                     *)

\* queries of a few characters: tags, a group, a comparison, directives, a
\* value that fails
ThreadQueries == {<<>>, <<"a">>, <<"-", "b">>, <<"(", "a", "|", "b", ")">>, <<"i", "d", ":", ">", "5">>, <<"i", "d", ":", "x">>, <<"s", "o", "r", "t", ":", "i", "d", " ", "a">>}

InitThreads == StartThreads(ThreadQueries, {None, saved})

SpecThreads == InitThreads /\ [][NextThreads]_vars

\* C16: under every interleaving of the threads, each call returns what
\* translate returns for its query and status when it runs alone.
C16_ThreadsReturnAsAlone ==
    \A thread \in Threads :
        threads[thread].pc = "done" =>
            threads[thread].result = Translate(threads[thread].query, threads[thread].status)

\* two calls with different queries returned, each with its own filter
C16_Witness ==
    /\ threads[1].pc = "done" /\ threads[1].query = <<"-", "b">>
    /\ threads[2].pc = "done" /\ threads[2].query = <<"(", "a", "|", "b", ")">>
    /\ threads[1].result.params = <<StrVal(<<"%", "\"", "b", "\"", "%">>)>>
    /\ threads[2].result.params = <<StrVal(<<"%", "\"", "a", "\"", "%">>), StrVal(<<"%", "\"", "b", "\"", "%">>)>>

----------------------------------------------------------------------------
(* C17                                                                     *)

\* a call of translate that has begun keeps running: weak fairness of each
\* of its steps, written for Call and Return with the guard of the action in
\* the place of ENABLED
Running ==
    /\ WF_vars(Step)
    /\ []<>(pc # "call") \/ []<><<Call>>_vars
    /\ []<>~(pc = "tokenize" /\ i >= Len(clean_query)) \/ []<><<Return>>_vars

InitFair == Start(Sentences(Terms, MaxTerms), {None, saved}, {0})

SpecFair == InitFair /\ [][Next]_vars /\ Running

\* every pass of the tokenizer loop moves i one character forward, and the
\* loop ends at the end of the clean query
TokenizerAdvances == Step => (i' = i + 1 /\ i' <= Len(clean_query))

\* a parse of the tokens that starts at a token ends after it, and the OR loop
\* ends after the token it starts at unless that token closes the group
ParserAdvances ==
    pc = "done" =>
        \A start \in 0 .. Len(tokens) - 1 : \A depth \in 0 .. 1 :
            /\ Bind(ParseTokens(tokens, start, depth), LAMBDA sub :
                   sub.ok => (start < sub.i /\ sub.i <= Len(tokens)))
            /\ Bind(OrLoop(tokens, start, depth, <<>>), LAMBDA g :
                   (g.ok /\ ~(tokens[start + 1] = <<")">> /\ depth > 0)) =>
                       (start < g.i /\ g.i <= Len(tokens)))

RECURSIVE NodeCount(_)
RECURSIVE NodeCountOf(_)
\* the number of nodes of an AST
NodeCount(node) == 1 + (IF node.type = "FILTER" THEN 0 ELSE NodeCountOf(node.children))

NodeCountOf(children) ==
    IF children = <<>> THEN 0 ELSE NodeCount(children[1]) + NodeCountOf(Tail(children))

\* the comparisons on duration, which are written in parentheses
DurationLeaves(node) ==
    SelectSeq(Leaves(node), LAMBDA leaf :
        /\ leaf.key.v = <<"d", "u", "r", "a", "t", "i", "o", "n">>
        /\ leaf.operator.v # <<"p", "a", "t", "t", "e", "r", "n">>)

\* the emitter wrote one parenthesised clause for every node below the root
\* and bound one parameter for every filter that has one
EmitterVisitsOnce ==
    (pc = "done" /\ ast # NoneVal) =>
        /\ Cardinality({k \in DOMAIN result.sql : result.sql[k] = "("})
               = (NodeCount(ast) - 1) + Len(DurationLeaves(ast))
                 + (IF Truthy(status) THEN 1 ELSE 0)
        /\ Len(result.params) = Len(BoundLeaves(ast)) + (IF Truthy(status) THEN 1 ELSE 0)

\* C17: every call of translate returns; the tokenizer loop moves its index
\* forward on each pass, the loops of the parser and its recursive parses end
\* at a later token than they start at, and the emitter visits each node of
\* the AST once.
C17_TranslateTerminates ==
    /\ <>(pc = "done")
    /\ [][TokenizerAdvances]_vars
    /\ [](ParserAdvances /\ EmitterVisitsOnce)

\* a call on a query with a group in it returned after the tokenizer had read
\* all of its characters
C17_Witness ==
    /\ pc = "done"
    /\ i = Len(clean_query)
    /\ i > 0
    /\ ast # NoneVal
    /\ ast.type = "OR"

----------------------------------------------------------------------------
(* C18                                                                     *)

\* the rows of the cache that satisfy the predicate translate gives for the
\* query and the status of the call
Satisfying == Bind(Translate(query, status), LAMBDA t : Select(cache, t.sql, t.params))

\* what get_cached_posts is to return for the arguments it was called with:
\* the satisfying rows, sorted and cut to limit/offset
Expected(page) ==
    Bind(Page(OrderBy(Satisfying, Upper(page.order) = <<"D", "E", "S", "C">>),
              page.limit, page.offset),
         LAMBDA fetched : [k \in DOMAIN fetched |-> Post(fetched[k])])

\* C18: for a search query that is not blank, get_cached_posts returns the
\* cached rows that satisfy the predicate of translate(q, status), sorted and
\* cut to limit/offset, and get_cache_count returns their number.
C18_RepositoryExecutesTranslation ==
    [][~IsBlank(query) =>
           /\ posts' # posts => posts'.rows = Expected(posts')
           /\ count' # count => count'.n = Cardinality(Satisfying)]_vars

----------------------------------------------------------------------------
(* C19                                                                     *)

\* the query is one bare tag without '*'
IsBareTagQuery ==
    /\ ast # NoneVal
    /\ ast.type = "FILTER"
    /\ ast.key.v = <<"t", "a", "g">>
    /\ ~ast.is_negated
    /\ ast.value.v = query
    /\ ~Contains(query, "*")

\* C19: a bare tag query t without '*' matches a row only if one of the tags
\* of the row equals t.
C19_BareTagMatchesEqualTagOnly ==
    (pc = "done" /\ ~result.raised /\ status = None /\ IsBareTagQuery) =>
        \A row \in cache :
            Matches(row) => \E tags \in TagListsOf(row) : \E k \in DOMAIN tags : tags[k] = query

----------------------------------------------------------------------------
(* C20                                                                     *)

\* tags, a field filter, groups with and without terms, single parentheses
\* and separators
ParenTerms == {<<"a">>, <<"i", "d", ":", "1">>, <<"(", ")">>, <<"(", "a", ")">>, <<"(", "a", "|", "b", ")">>, <<"(">>, <<")">>, <<"|">>, <<"(", "|", ")">>, <<"(", "(", ")">>}

InitParens == Start(Sentences(ParenTerms, MaxTerms), {None, saved}, {0})

SpecParens == InitParens /\ [][Next]_vars

RECURSIVE Below(_)
RECURSIVE BelowAll(_)
\* the nodes below a node of an AST
Below(node) == BelowAll(node.children)

BelowAll(children) ==
    IF children = <<>> THEN <<>>
    ELSE <<children[1]>> \o Below(children[1]) \o BelowAll(Tail(children))

\* no token of the query is a term
NoTerms == \A k \in DOMAIN tokens : tokens[k] \in {<<"(">>, <<")">>, <<"|">>}

\* every term of the query comes after a ')'
NoTermBeforeClose ==
    \A k \in DOMAIN tokens :
        tokens[k] \in {<<"(">>, <<")">>, <<"|">>} \/ \E j \in 1 .. k - 1 : tokens[j] = <<")">>

\* a group without a term: a '(' after which, '(' and '|' apart, a ')' or
\* the end of the tokens comes first
HasEmptyGroup ==
    \E j \in DOMAIN tokens :
        /\ tokens[j] = <<"(">>
        /\ Bind({k \in j + 1 .. Len(tokens) : tokens[k] \notin {<<"(">>, <<"|">>}},
                LAMBDA rest :
                    rest = {} \/ tokens[CHOOSE k \in rest : \A m \in rest : k <= m] = <<")">>)

\* a FILTER node has no children
FiltersAreLeaves ==
    Bind(<<ast>> \o Below(ast), LAMBDA nodes :
        \A k \in DOMAIN nodes : nodes[k].type = "FILTER" => nodes[k].children = <<>>)

\* C20 as stated: a FILTER node has no children, every AND or OR node has a
\* child, but for the root AND node of a query that has no terms.
C20_GroupsHaveChildren ==
    (pc = "done" /\ ast # NoneVal) =>
        /\ FiltersAreLeaves
        /\ Bind(Below(ast), LAMBDA nodes :
               \A k \in DOMAIN nodes : nodes[k].type # "FILTER" => nodes[k].children # <<>>)
        /\ (ast.type # "FILTER" /\ ast.children = <<>>) => (ast.type = "AND" /\ NoTerms)

\* C20: a FILTER node has no children, an OR node has at least one child, an
\* AND node has no child or at least two; a childless AND node is the root
\* only for a query whose terms, if any, all come after a ')', and stands
\* below the root only for a query with a group that has no terms, such as
\* 'a ()'.
C20_ChildlessOnlyForEmptyGroups ==
    (pc = "done" /\ ast # NoneVal) =>
        /\ FiltersAreLeaves
        /\ Bind(<<ast>> \o Below(ast), LAMBDA nodes :
               \A k \in DOMAIN nodes :
                   /\ nodes[k].type = "OR" => Len(nodes[k].children) >= 1
                   /\ nodes[k].type = "AND" => Len(nodes[k].children) # 1)
        /\ (ast.type # "FILTER" /\ ast.children = <<>>) => (ast.type = "AND" /\ NoTermBeforeClose)
        /\ Bind(Below(ast), LAMBDA nodes :
               (\E k \in DOMAIN nodes : nodes[k].type # "FILTER" /\ nodes[k].children = <<>>)
                   => HasEmptyGroup)

\* 'a ()' was parsed to the AND of the tag a and a childless AND node
C20_Witness ==
    /\ pc = "done"
    /\ query = <<"a">> \o <<" ">> \o <<"(", ")">>
    /\ ast # NoneVal
    /\ ast.type = "AND"
    /\ Len(ast.children) = 2
    /\ ast.children[2] = GroupNode("AND", <<>>)

----------------------------------------------------------------------------
(* C21                                                                     *)

\* the alternatives of a group: terms and parenthesised sub-groups
Alternatives == {<<"a">>, <<"b">>, <<"(", "a", ")">>, <<"(", "b", ")">>, <<"(", "a", "|", "b", ")">>}

\* the group of two alternatives
Either(x, y) == <<"(">> \o x \o <<" ", "|", " ">> \o y \o <<")">>

InitAlternatives ==
    Start({Either(x, y) : x, y \in Alternatives}, {None, saved}, {0})

SpecAlternatives == InitAlternatives /\ [][Next]_vars

\* the AST of an alternative parsed by itself
AstOf(x) == ParseQuery(Tokenize(x)).node

\* C21: '(X | Y)' parses to the OR node of X and Y, for X and Y each a term or
\* a parenthesised sub-group, also when X is a sub-group.
C21_AlternativesBecomeOneOr ==
    pc = "done" =>
        \A x, y \in Alternatives :
            query = Either(x, y) => ast = GroupNode("OR", <<AstOf(x), AstOf(y)>>)

----------------------------------------------------------------------------
(* C22                                                                     *)

\* terms, balanced groups, a group opened right after pending text at depth
\* 0 and at depth 1, and single parentheses
NestingTerms == {<<"a">>, <<"-", "b">>, <<"(", "a", ")">>, <<"a", "!", "(", "b", ")">>, <<"(", "a", "!", "(", "b", ")", ")">>, <<"(", "-", "(", "a", ")", ")">>, <<"(", "a", "|", "b", ")">>, <<"(">>, <<")">>, <<"a", ")">>}

InitNestings == Start(Sentences(NestingTerms, MaxTerms), {None, saved}, {0})

SpecNestings == InitNestings /\ [][Next]_vars

\* the pass of the tokenizer loop at a parenthesis appends a grouping token
GroupingStep ==
    /\ pc = "tokenize"
    /\ i < Len(clean_query)
    /\ i' = i + 1
    /\ clean_query[i + 1] \in {"(", ")"}
    /\ Len(tokens') > Len(tokens)
    /\ tokens'[Len(tokens')] = <<clean_query[i + 1]>>

\* C22: when the tokenizer appends a parenthesis as a grouping token, the
\* text pending in the buffer is emitted first as a token of its own, at
\* every depth, and the buffer is empty after the grouping token.
C22_GroupingTokenFlushesBuffer ==
    [][GroupingStep =>
          /\ buffer' = <<>>
          /\ tokens' = (IF Strip(buffer) # <<>> THEN Append(tokens, Strip(buffer)) ELSE tokens)
                           \o <<<<clean_query[i + 1]>>>>]_vars

----------------------------------------------------------------------------
(* C23                                                                     *)

\* searches with and without a matching-tags directive
ServiceQueries == {<<>>, <<"r", "e", "d">>, <<"r", "e", "d", " ", "m", "a", "t", "c", "h", "e", "s", ":", ">", "0">>, <<"r", "e", "d", " ", "a", "x", "b", " ", "m", "a", "t", "c", "h", "e", "s", ":", "2">>, <<"r", "e", "d", " ", "-", "m", "a", "t", "c", "h", "e", "s", ":", "1">>,
                   <<"r", "e", "*", " ", "m", "a", "t", "c", "h", "e", "s", ":", ">", "=", "1">>, <<"r", "e", "d", " ", "s", "o", "r", "t", ":", "r", "a", "n", "d", "o", "m">>, <<"R", "e", "d", " ", "m", "a", "t", "c", "h", "i", "n", "g", "-", "t", "a", "g", "s", ":", ">", "0">>,
                   <<"(", "r", "e", "d", " ", "|", " ", "n", "_", "(", "s", ")", ")", " ", "-", "a", "x", "b", " ", "m", "a", "t", "c", "h", "e", "s", ":", "1">>}

InitService == Start(ServiceQueries, {None, saved}, {0})

SpecService == InitService /\ [][NextService]_vars

\* all the rows of the cache that satisfy the predicate of the query, sorted
\* by post_id, as dicts
CandidateRows(order) ==
    Bind(OrderBy(Satisfying, Upper(order) = <<"D", "E", "S", "C">>), LAMBDA rows :
         [k \in DOMAIN rows |-> Post(rows[k])])

\* C23: for a query with a matching-tags directive, the posts get_posts
\* returns are filtered[offset : offset + limit] and total is the length of
\* filtered, where filtered is what the matching-tags filter keeps of all
\* the rows that satisfy the query.
C23_PageIsCutAfterFilter ==
    [][(/\ served' # served
        /\ ~served'.raised
        /\ served'.sort_by # <<"r", "a", "n", "d", "o", "m">>
        /\ CheckForMatchingTagsFilter(query) # NoneVal)
       => Bind(CheckForMatchingTagsFilter(query), LAMBDA filter :
          Bind(ApplyMatchingTagsFilter(CandidateRows(served'.order), query, filter.operator,
                                       filter.threshold, filter.is_negated),
               LAMBDA filtered :
               /\ served'.posts = Slice(filtered, served'.offset,
                                        served'.offset + served'.limit)
               /\ served'.total = Len(filtered)))]_vars

----------------------------------------------------------------------------
(* C24                                                                     *)

\* the values of the tag filters of the AST that are not negated, lowercased,
\* left to right
TagLeaves ==
    Bind(SelectSeq(Leaves(ast), LAMBDA leaf : leaf.key.v = <<"t", "a", "g">> /\ ~leaf.is_negated),
         LAMBDA leaves : [k \in DOMAIN leaves |-> Lower(leaves[k].value.v)])

\* C24: the tags _extract_search_tags derives of a query are the terms the
\* translator parses as tag filters that are not negated, lowercased and
\* whole.
C24_SearchTagsAreTagLeaves ==
    (pc = "done" /\ ast # NoneVal) => ExtractSearchTags(query) = TagLeaves

----------------------------------------------------------------------------
(* C25                                                                     *)

\* field names that the sort-alias map does not hold
UnknownFields == {<<"f", "o", "o">>, <<"F", "o", "o">>, <<"m", "y", "_", "f", "i", "e", "l", "d">>, <<"A", "1">>}

\* the value of a sort: directive: one unknown field, or two fields of which
\* one at least is unknown, separated by ';' or ','
SortValues ==
    {<<f>> : f \in UnknownFields}
        \cup {<<f, g>> : f \in UnknownFields, g \in UnknownFields \cup {<<"s", "c", "o", "r", "e">>}}
        \cup {<<g, f>> : f \in UnknownFields, g \in {<<"s", "c", "o", "r", "e">>}}

SortValueToken(fields, sep) == <<"s", "o", "r", "t", ":">> \o Join(sep, fields)

UnknownSortTokens == {SortValueToken(fields, sep) : fields \in SortValues, sep \in {<<";">>, <<",">>}}

InitUnknownSorts ==
    Start({t \o <<" ", "r", "e", "d">> : t \in UnknownSortTokens}, {None, saved}, {0})

SpecUnknownSorts == InitUnknownSorts /\ [][Next]_vars

\* C25: a sort: directive on fields the sort-alias map does not hold gives
\* sort_by the field names exactly as typed, for a single field and for each
\* field of a multi-field sort (a known field gives its alias).
C25_UnknownSortFieldUnchanged ==
    pc = "done" =>
        \A fields \in SortValues : \A sep \in {<<";">>, <<",">>} :
            query = SortValueToken(fields, sep) \o <<" ", "r", "e", "d">> =>
                result.metadata.sort_by =
                    StrVal(Join(<<",">>, [k \in DOMAIN fields |->
                                        Get(SORT_ALIASES, fields[k], fields[k])]))

----------------------------------------------------------------------------
(* C26                                                                     *)

InitAccess == StartAccess

SpecAccess == InitAccess /\ [][NextAccess]_vars

\* C26: at most one QueryTranslator is ever constructed, and all the callers
\* of get_query_translator hold the same instance, also when the first calls
\* are made by several threads at once.
C26_OneTranslatorForAll ==
    /\ instances <= 1
    /\ \A one, other \in Threads :
           (callers[one].held # NoneVal /\ callers[other].held # NoneVal)
               => callers[one].held = callers[other].held

----------------------------------------------------------------------------
(* C27                                                                     *)

\* the tokens that are not grouping tokens or separators, in order
TermTokens == SelectSeq(tokens, LAMBDA t : t \notin {<<"(">>, <<")">>, <<"|">>})

\* C27: the top-level call of _parse_tokens consumes all the tokens, and the
\* FILTER leaves of the AST are the filters of the term tokens, one leaf for
\* each term token, in token order.
C27_EveryTermBecomesOneLeaf ==
    (pc = "done" /\ ast # NoneVal) =>
        /\ ParseQuery(tokens).i = Len(tokens)
        /\ Len(Leaves(ast)) = Len(TermTokens)
        /\ \A k \in DOMAIN TermTokens : Leaves(ast)[k] = ParseFilterToken(TermTokens[k]).node

----------------------------------------------------------------------------
(* C30                                                                     *)

\* the pass of the tokenizer loop at a ')'
CloseStep ==
    /\ pc = "tokenize"
    /\ i < Len(clean_query)
    /\ i' = i + 1
    /\ clean_query[i + 1] = ")"

\* C30: paren_depth is never negative; the tokenizer takes a ')' as a grouping
\* token, lowering paren_depth, only while paren_depth is positive, and a ')'
\* met at depth 0 is appended to the buffer as literal text and gives no
\* token.
C30_DepthNeverNegative ==
    /\ [](paren_depth >= 0)
    /\ [][CloseStep =>
             /\ paren_depth' < paren_depth => (paren_depth > 0 /\ GroupingStep)
             /\ paren_depth = 0 =>
                    /\ buffer' = Append(buffer, ")")
                    /\ tokens' = tokens
                    /\ paren_depth' = 0]_vars

\* in 'a) (a)' the first ')' was kept in the buffer at depth 0, and the
\* second one has closed the group
C30_Witness ==
    /\ pc = "tokenize"
    /\ query = <<"a", ")", " ", "(", "a", ")">>
    /\ i = Len(query)
    /\ tokens = <<<<"a", ")">>, <<"(">>, <<"a">>, <<")">>>>
    /\ paren_depth = 0

----------------------------------------------------------------------------
(* C29                                                                     *)

\* names that are no alias and no numeric, text or date field
UnknownNames == {<<"f", "o", "o">>, <<"s", "t", "a", "t", "u", "s">>, <<"x", "_", "y">>, <<"a", "-", "b">>, <<"t", "a", "g">>, <<"T", "a", "g">>, <<"T", "A", "G">>}

NameValues == {<<"b", "a", "r">>, <<"a", "*">>, <<"b", ":", "c">>, <<"5">>, <<">", "3">>}

NamePrefixes == {<<>>, <<"-">>, <<"!">>, <<"n", "o", "t", ":">>}

NamedToken(prefix, name, value) == prefix \o name \o <<":">> \o value

InitUnknownNames ==
    Start({NamedToken(prefix, name, value) :
               prefix \in NamePrefixes, name \in UnknownNames, value \in NameValues},
          {None, saved}, {0})

SpecUnknownNames == InitUnknownNames /\ [][Next]_vars

\* the fragment and the parameters that translate hands back for the filter
\* fragment sql with the parameters params, with and without a status
Translated(sql, params) ==
    IF status = None THEN result.sql = sql /\ result.params = params
    ELSE /\ result.sql = <<"(">> \o sql \o <<")", " AND ", "status", " = ", "?">>
         /\ result.params = params \o <<status>>

----------------------------------------------------------------------------
(* C28                                                                     *)

\* posts handed to cache_post: one with the keys id, status and tags alone,
\* and two with a title, a score, a width and a height, a created_at, a
\* duration and a file_size as well
MediaData == {
    [id |-> 1, status |-> saved, tags |-> <<<<"r", "e", "d">>>>],
    [id |-> 1, status |-> saved, tags |-> <<<<"r", "e", "d">>, <<"b", "l", "u", "e">>>>, title |-> StrVal(<<"C", "a", "t">>),
     score |-> PyInt(10), width |-> PyInt(3), height |-> PyInt(2),
     created_at |-> StrVal(<<"2", "0", "2", "4", "-", "0", "1", "-", "0", "2", " ", "0", "3", ":", "0", "4", ":", "0", "5">>),
     duration |-> ParseFloat(<<"2", ".", "5">>).val, file_size |-> PyInt(2048)],
    [id |-> 1, status |-> saved, tags |-> <<>>, title |-> StrVal(<<>>),
     score |-> PyInt(5), width |-> PyInt(1), height |-> PyInt(3),
     created_at |-> StrVal(<<"2", "0", "2", "4", "-", "0", "1", "-", "0", "1">>),
     duration |-> ParseFloat(<<"1", "0", ".", "0">>).val, file_size |-> PyInt(100)]}

\* single filter tokens without exclusion prefix on the columns the emitter
\* resolves in SQL; the value abc of the last one is no number
FilterTokens == {
    <<"r", "e", "d">>, <<"r", "*">>, <<"t", "i", "t", "l", "e", ":", "c", "a", "t">>, <<"t", "i", "t", "l", "e", ":", "c", "*">>, <<"s", "c", "o", "r", "e", ":", ">", "5">>, <<"s", "c", "o", "r", "e", ":", "5">>, <<"s", "c", "o", "r", "e", ":", "1", "*">>,
    <<"t", "a", "g", "s", ":", "2">>, <<"t", "a", "g", "c", "o", "u", "n", "t", ":", "1", "*">>, <<"i", "d", ":", "1">>, <<"w", "i", "d", "t", "h", ":", "<", "3">>, <<"s", "i", "z", "e", ":", ">", "1", "k", "b">>, <<"s", "i", "z", "e", ":", "1", "0", "0">>,
    <<"d", "u", "r", "a", "t", "i", "o", "n", ":", ">", "5">>, <<"d", "u", "r", "a", "t", "i", "o", "n", ":", "2", ".", "5", "<">>, <<"d", "u", "r", "a", "t", "i", "o", "n", ":", "n", "a", "n">>, <<"d", "u", "r", "a", "t", "i", "o", "n", ":", "i", "n", "f">>,
    <<"c", "r", "e", "a", "t", "e", "d", "_", "a", "t", ":", "2", "0", "2", "4", "-", "0", "1", "-", "0", "2">>, <<"u", "p", "l", "o", "a", "d", "e", "d", ":", ">", "2", "0", "2", "4", "-", "0", "1", "-", "0", "1">>, <<"r", "a", "t", "i", "o", ":", "1", ".", "5">>, <<"r", "a", "t", "i", "o", ":", ">", "1">>,
    <<"r", "a", "t", "i", "o", ":", "0", ".", "3", "3", "3", "3", "3", "3", "3", "3", "3", "3", "3", "3", "3", "3", "3", "3">>, <<"s", "c", "o", "r", "e", ":", "a", "b", "c">>}

Negation(t) == <<"-">> \o t

\* cache_post(post_data) for a post of MediaData
CacheMedia ==
    /\ \E post_data \in MediaData :
           cache' = {row \in cache : row.post_id # post_data.id} \cup {Row(post_data)}
    /\ UNCHANGED <<call, posts, count, threaded, served, singleton>>

NextNegation == Call \/ Step \/ Return \/ CacheMedia

InitNegation ==
    Start(FilterTokens \cup {Negation(t) : t \in FilterTokens}, {None, saved}, {0})

SpecNegation == InitNegation /\ [][NextNegation]_vars

\* the predicate of translate(text, status) holds for the row
MatchesOf(text, row) ==
    Bind(Translate(text, status), LAMBDA other : Holds(other.sql, other.params, row))

\* C28 as stated: a cache row satisfies exactly one of the predicates of
\* translate(t) and translate('-' + t), whatever the values of its columns.
C28_RowSatisfiesTokenOrNegation ==
    pc = "done" =>
        \A row \in cache : \A t \in FilterTokens :
            /\ query = t => (Matches(row) # MatchesOf(Negation(t), row))
            /\ query = Negation(t) => (Matches(row) # MatchesOf(t, row))

\* the piece of the WHERE fragment at which the comparison of a single
\* filter starts: after the parenthesis that precedes AND status = ? and
\* after the guard of duration
FilterStart(sql) ==
    Bind(IF sql[1] = "(" /\ sql[3] # " IS NOT NULL AND " THEN 2 ELSE 1, LAMBDA s :
    IF sql[s] = "(" THEN s + 3 ELSE s)

\* an operand of the comparison of the filter that translate returned is
\* NULL for the row
ReadsNull(row) ==
    Bind(ComparisonAt(result.sql, result.params, row, FilterStart(result.sql), 1),
         LAMBDA c : c.left = NoneVal \/ c.right = NoneVal)

\* C28, amended: for a token t without exclusion prefix that translate
\* parses without an error, a cache row satisfies exactly one of the
\* predicates of translate(t) and translate('-' + t) when no operand of the
\* comparison is NULL, and neither of them when one is: the value read from
\* the row (file_size or duration not given, DATE() of a created_at that is
\* no date, width / height with the height 0) or the parameter (nan).
C28_RowSatisfiesOneUnlessNull ==
    pc = "done" =>
        \A row \in cache : \A t \in FilterTokens :
            (query \in {t, Negation(t)} /\ ParseFilterToken(t).ok) =>
                Bind(MatchesOf(IF query = t THEN Negation(t) ELSE t, row), LAMBDA other :
                IF ReadsNull(row) THEN ~Matches(row) /\ ~other
                ELSE Matches(row) # other)

\* translate('-duration:>5') has returned, and the cached row of a post
\* without duration does not satisfy its predicate
C28_Witness ==
    /\ pc = "done"
    /\ query = <<"-", "d", "u", "r", "a", "t", "i", "o", "n", ":", ">", "5">>
    /\ status = None
    /\ \E row \in cache : row.duration = NoneVal /\ ~Matches(row)

====
